---- MODULE Spec2Model ----
(***************************************************************************)
(* Model of the Oracle session store (services/sessions.py) and of the     *)
(* handlers of app.py that create, resume, commit and discard generation   *)
(* sessions (/generate, /quick-generate, /approve, /discard).              *)
(*                                                                         *)
(* Strings that the code normalises (segment, campaign, calling date) are  *)
(* sequences of one-character strings, so that lower() and strip() are     *)
(* computed and not assumed.                                               *)
(***************************************************************************)
EXTENDS Integers, Sequences, FiniteSets, TLC

VARIABLES
    sessions,   \* sessions.py _sessions: the in-memory store, id -> data or None
    disk,       \* sessions/prep_<id>.json: id -> [data, mtime] or NoFile; mtimes are
                \* kept as ranks (0 = oldest), only their order is observable
    uuid,       \* number of fresh tokens handed out by uuid.uuid4()
    gen,        \* the running /generate stream: the locals of generate.stream and
                \* the contacts for which the filters (filtered), a filter's skip
                \* (skipped) and the generation call (generated) have happened
    apr,        \* the running /approve stream (locals of approve.stream)
    notes,      \* CRM: notes created per session id and contact id (0, 1, 2 = more than one)
    served,     \* number of requests received so far
    paths,      \* one session's canonical path and temp path: the inode each names (0: none)
    inodes,     \* the content of every inode: the chunks written so far
    writers,    \* the threads inside save_session_to_disk
    version,    \* number of save_session_to_disk calls so far
    seen,       \* what the last reader of the canonical path has read
    km,         \* a stored key, a requested key and the result of their comparison
    st,         \* _sessions as a dict of object references, the heap of the objects
                \* and the references callers hold
    sheet,      \* a call of build_call_sheet: its input list and its results
    tzr,        \* a call of resolve_timezone: the contact's properties and the result
    rk,         \* calls of title_seniority: two job titles and their ranks
    rt,         \* a call of retry_request: its position, attempts and outcome
    lp,         \* the contact loop of a generation run: contacts, marks, stats
    cr,         \* the configured credentials and the request being handled
    pl,         \* the process-wide thread pool and the streams of the parallel stages
    dd          \* the signal dedup store, the clock and the webhook requests

lifeVars == <<sessions, disk, uuid, gen, apr, notes, served>>
fsVars == <<paths, inodes, writers, version, seen>>
kmVars == <<km>>
stVars == <<st>>
sheetVars == <<sheet>>
tzVars == <<tzr>>
fnVars == <<rk, rt, lp, cr>>
parVars == <<pl, dd>>
auxVars == <<stVars, sheetVars, tzVars, fnVars, parVars>>
vars == <<lifeVars, fsVars, kmVars, auxVars>>

(***************************************************************************)
(* Bounds                                                                  *)
(***************************************************************************)
MaxSessions == 2
MaxRequests == 3

SessionIds == 1..MaxSessions

\* the contacts of the CRM
ContactIds == {"A", "B"}

\* Python's None, an absent file, and "no modification time yet"
None == [none |-> TRUE]
NoFile == [nofile |-> TRUE]
NoTime == -1

\* script_content values: "" is the empty artifact
Scripts == {"", "X"}

(***************************************************************************)
(* Strings: str.lower() and str.strip()                                    *)
(***************************************************************************)
Whitespace == {" "}

Lowers == <<"a", "b", "c", "d", "e", "f", "g", "h", "i", "j", "k", "l", "m",
            "n", "o", "p", "q", "r", "s", "t", "u", "v", "w", "x", "y", "z">>
Uppers == <<"A", "B", "C", "D", "E", "F", "G", "H", "I", "J", "K", "L", "M",
            "N", "O", "P", "Q", "R", "S", "T", "U", "V", "W", "X", "Y", "Z">>
Digits == {"0", "1", "2", "3", "4", "5", "6", "7", "8", "9"}

LowerChar(c) ==
    IF \E i \in DOMAIN Uppers : Uppers[i] = c
    THEN Lowers[CHOOSE i \in DOMAIN Uppers : Uppers[i] = c]
    ELSE c

lower(s) == [i \in DOMAIN s |-> LowerChar(s[i])]

RECURSIVE lstrip(_)
lstrip(s) ==
    IF s = <<>> THEN <<>>
    ELSE IF Head(s) \in Whitespace THEN lstrip(Tail(s)) ELSE s

RECURSIVE rstrip(_)
rstrip(s) ==
    IF s = <<>> THEN <<>>
    ELSE IF s[Len(s)] \in Whitespace THEN rstrip(SubSeq(s, 1, Len(s) - 1)) ELSE s

strip(s) == rstrip(lstrip(s))

(***************************************************************************)
(* Sequences helpers                                                       *)
(***************************************************************************)
Range(s) == {s[i] : i \in DOMAIN s}

\* all sequences without repetition over a set (directory listings, CRM lists)
Orders(S) ==
    {s \in UNION {[1..n -> S] : n \in 0..Cardinality(S)} :
        \A i, j \in DOMAIN s : i # j => s[i] # s[j]}

Perms(S) == {s \in Orders(S) : Len(s) = Cardinality(S)}

RECURSIVE SelectSeq2(_, _)
\* list comprehension [c for c in s if c.contact_id in ids]
SelectSeq2(s, ids) ==
    IF s = <<>> THEN <<>>
    ELSE IF Head(s).contact_id \in ids
         THEN <<Head(s)>> \o SelectSeq2(Tail(s), ids)
         ELSE SelectSeq2(Tail(s), ids)

(***************************************************************************)
(* sessions.py                                                             *)
(***************************************************************************)
\* get_session: a deep copy of the stored value (values are immutable here)
get_session(key) == sessions[key]

\* load_session_from_disk
load_session_from_disk(session_id) ==
    IF disk[session_id] # NoFile THEN disk[session_id].data ELSE None

\* `get_session(id) or load_session_from_disk(id)`
get_or_load(session_id) ==
    IF get_session(session_id) # None THEN get_session(session_id)
    ELSE load_session_from_disk(session_id)

\* the prep_*.json files of the sessions directory
Files(d) == {s \in SessionIds : d[s] # NoFile}

\* modification times reduced to their ranks
Ranked(d) ==
    [s \in SessionIds |->
        IF d[s] = NoFile THEN NoFile
        ELSE [data |-> d[s].data,
              mtime |-> Cardinality({d[t].mtime : t \in {u \in Files(d) : d[u].mtime < d[s].mtime}})]]

\* the time of a write: not before any modification time of the directory;
\* later = FALSE is a write within the clock granule of the newest file
Now(d, later) ==
    LET top == IF Files(d) = {} THEN 0
               ELSE CHOOSE m \in {d[s].mtime : s \in Files(d)} :
                        \A s \in Files(d) : d[s].mtime <= m
    IN IF later THEN top + 1 ELSE top

\* save_session_to_disk, as the effect of its os.replace (the steps of the
\* write are modelled in SpecFile below)
save_session_to_disk(d, session_id, data, later) ==
    Ranked([d EXCEPT ![session_id] = [data |-> data, mtime |-> Now(d, later)]])

\* the match condition with the campaign compared as typed
KeyMatchCampaignAsTyped(data, segment, campaign, calling_date) ==
    /\ strip(lower(data.segment)) = strip(lower(segment))
    /\ strip(data.campaign) = strip(campaign)
    /\ strip(data.calling_date) = strip(calling_date)
    /\ data.contacts # <<>>

\* the match condition of find_resumable_session (lines 80-83)
KeyMatch(data, segment, campaign, calling_date) ==
    /\ strip(lower(data.segment)) = strip(lower(segment))
    /\ strip(lower(data.campaign)) = strip(lower(campaign))
    /\ strip(data.calling_date) = strip(calling_date)
    /\ data.contacts # <<>>

\* the comparison turned round: the oldest candidate is kept
Older(mtime, best_time) == best_time = NoTime \/ mtime < best_time

\* the comparison that keeps the best candidate (line 85)
Newer(mtime, best_time) == best_time = NoTime \/ mtime > best_time

RECURSIVE ScanDir(_, _, _, _, _, _)
\* the loop of find_resumable_session over os.listdir in the order `names`
ScanDir(d, names, segment, campaign, calling_date, best) ==
    IF names = <<>> THEN best
    ELSE LET f == d[Head(names)]
             hit == /\ KeyMatch(f.data, segment, campaign, calling_date)
                    /\ Newer(f.mtime, best.time)
         IN ScanDir(d, Tail(names), segment, campaign, calling_date,
                    IF hit THEN [session |-> f.data, time |-> f.mtime] ELSE best)

\* find_resumable_session: <<session_id, session_data>> or <<None, None>>
find_resumable_session(d, names, segment, campaign, calling_date) ==
    LET best == ScanDir(d, names, segment, campaign, calling_date,
                        [session |-> None, time |-> NoTime])
    IN IF best.session # None
       THEN <<best.session.session_id, best.session>>
       ELSE <<None, None>>

(***************************************************************************)
(* Requests and external collaborators                                     *)
(***************************************************************************)
\* the JSON bodies of /generate and /quick-generate: the second equals the
\* first up to case and surrounding whitespace, the third differs from the
\* first only in the case of the calling date
Requests ==
    { [segment |-> <<"A">>, campaign |-> <<"b">>, calling_date |-> <<"a">>] }

\* the lists that the CRM returns for the segment (get_list_memberships and
\* batch_get_contacts): the segment is empty or holds A and B
CrmLists == {<<>>, <<"A", "B">>}

\* the contacts of the segment that have a prep note, in list order
PrepLists == {<<"A">>, <<"B">>, <<"A", "B">>}

\* format_note_html(props, campaign, script_content): the rendered note
format_note_html(script_content) == <<"html", script_content>>

\* the body of the latest COLD CALL PREP note of a contact in the CRM
latest_note_body(cid) == <<"crm_note", "latest">>

\* one entry of a session's "contacts" list
ContactEntry(cid, script_content, note_html) ==
    [contact_id |-> cid, script_content |-> script_content, note_html |-> note_html]

\* the "contacts" comprehension of _save_progress and of the final writes
ContactsOf(prepped_contacts) ==
    [k \in DOMAIN prepped_contacts |->
        ContactEntry(prepped_contacts[k].contact,
                     prepped_contacts[k].script_content,
                     prepped_contacts[k].note_html)]

\* a session document (generate, quick_generate and _save_progress write the
\* same key fields; failed_contact_ids is absent until approve retains)
SessionData(session_id, segment, campaign, calling_date, complete, quick, contacts) ==
    [session_id |-> session_id, segment |-> segment, campaign |-> campaign,
     calling_date |-> calling_date, generation_complete |-> complete,
     quick_mode |-> quick, contacts |-> contacts, failed_contact_ids |-> <<>>]

(***************************************************************************)
(* /generate                                                               *)
(***************************************************************************)
GenIdle ==
    [pc |-> "idle", session_id |-> 0, segment |-> <<>>, campaign |-> <<>>,
     calling_date |-> <<>>, prev_session |-> None,
     cached_scripts |-> <<>>, contacts |-> <<>>, i |-> 0,
     prepped_contacts |-> <<>>, filtered |-> {}, skipped |-> {},
     generated |-> {}, session_data |-> None]

\* lines 180-185: the cache of the previous session's non-empty scripts
\* (a dict: the last entry of an identifier wins)
cached_scripts(prev_session) ==
    IF prev_session = None THEN <<>>
    ELSE LET cs == prev_session.contacts
             ids == {cs[k].contact_id : k \in {j \in DOMAIN cs : cs[j].script_content # ""}}
         IN [cid \in ids |->
                cs[CHOOSE k \in DOMAIN cs :
                      /\ cs[k].contact_id = cid /\ cs[k].script_content # ""
                      /\ \A j \in DOMAIN cs :
                            (cs[j].contact_id = cid /\ cs[j].script_content # "") => j <= k]]

\* the lookup that never hits (an identifier that is not converted to str)
IsCachedNever(cid, cached) == FALSE

\* line 249: `if str(cid) in cached_scripts`
IsCached(cid, cached) == cid \in DOMAIN cached

\* lines 256-264: the entry appended for a cached contact
CachedPrepped(cid, cached) ==
    [contact |-> cid, script_content |-> cached[cid].script_content,
     note_html |-> format_note_html(cached[cid].script_content)]

\* the identifier of a run that always takes a fresh token
ChooseFreshSessionId(prev_session_id, prev_session) == uuid + 1

\* lines 164-169: the session identifier of the run
ChooseSessionId(prev_session_id, prev_session) ==
    IF prev_session # None THEN prev_session_id ELSE uuid + 1

\* generate() up to the contact loop: resume lookup, identifier, cache and
\* the CRM list (found = FALSE: list not found; cs = <<>>: empty list)
GenStart(req, names, found, cs) ==
    /\ served < MaxRequests
    /\ served' = served + 1
    /\ gen.pc = "idle" /\ apr.pc = "idle"
    /\ LET segment_name == strip(req.segment)
           campaign == strip(req.campaign)
           calling_date == strip(req.calling_date)
           r == find_resumable_session(disk, names, segment_name, campaign, calling_date)
           prev_session == r[2]
           session_id == ChooseSessionId(r[1], r[2])
       IN /\ segment_name # <<>> /\ campaign # <<>>
          /\ prev_session = None => uuid < MaxSessions
          /\ uuid' = IF prev_session = None THEN uuid + 1 ELSE uuid
          /\ gen' = [GenIdle EXCEPT
                        !.pc = IF found /\ cs # <<>> THEN "loop" ELSE "done",
                        !.session_id = session_id,
                        !.segment = segment_name,
                        !.campaign = campaign,
                        !.calling_date = calling_date,
                        !.prev_session = prev_session,
                        !.cached_scripts = cached_scripts(prev_session),
                        !.contacts = IF found THEN cs ELSE <<>>,
                        !.i = 1]
    /\ UNCHANGED <<sessions, disk, apr, notes, fsVars, kmVars, auxVars>>

\* lines 248-269: a contact found in the cache is appended without filters
\* and without generation (and without a checkpoint)
GenCached ==
    /\ gen.pc = "loop" /\ gen.i <= Len(gen.contacts)
    /\ LET cid == gen.contacts[gen.i]
       IN /\ IsCached(cid, gen.cached_scripts)
          /\ gen' = [gen EXCEPT
                        !.prepped_contacts = Append(@, CachedPrepped(cid, gen.cached_scripts)),
                        !.i = @ + 1]
    /\ UNCHANGED <<sessions, disk, uuid, apr, notes, served, fsVars, kmVars, auxVars>>

\* the reasons for which filters A-C skip a contact (lines 271-316); the
\* reason "existing" needs the request's skip_existing flag, which has no
\* other effect on the run
SkipReasons == {"subscriber", "email_error", "no_email", "existing"}

\* lines 271-316: a filter skips the contact
GenSkip(reason) ==
    /\ gen.pc = "loop" /\ gen.i <= Len(gen.contacts)
    /\ reason \in SkipReasons
    /\ LET cid == gen.contacts[gen.i]
       IN /\ ~IsCached(cid, gen.cached_scripts)
          /\ gen' = [gen EXCEPT !.filtered = @ \cup {cid},
                                !.skipped = @ \cup {cid},
                                !.i = @ + 1]
    /\ UNCHANGED <<sessions, disk, uuid, apr, notes, served, fsVars, kmVars, auxVars>>

\* the generation step of a loop that moves on to the next contact without
\* calling _save_progress
GenGenerateUnsaved(script_content) ==
    /\ gen.pc = "loop" /\ gen.i <= Len(gen.contacts)
    /\ LET cid == gen.contacts[gen.i]
       IN /\ ~IsCached(cid, gen.cached_scripts)
          /\ gen' = [gen EXCEPT
                        !.i = @ + 1,
                        !.filtered = @ \cup {cid},
                        !.generated = @ \cup {cid},
                        !.prepped_contacts =
                            Append(@, [contact |-> cid, script_content |-> script_content,
                                       note_html |-> format_note_html(script_content)])]
    /\ UNCHANGED <<sessions, disk, uuid, apr, notes, served, fsVars, kmVars, auxVars>>

\* lines 318-346: the filters pass and the script is generated
GenGenerate(script_content) ==
    /\ gen.pc = "loop" /\ gen.i <= Len(gen.contacts)
    /\ LET cid == gen.contacts[gen.i]
       IN /\ ~IsCached(cid, gen.cached_scripts)
          /\ gen' = [gen EXCEPT
                        !.pc = "checkpoint",
                        !.filtered = @ \cup {cid},
                        !.generated = @ \cup {cid},
                        !.prepped_contacts =
                            Append(@, [contact |-> cid, script_content |-> script_content,
                                       note_html |-> format_note_html(script_content)])]
    /\ UNCHANGED <<sessions, disk, uuid, apr, notes, served, fsVars, kmVars, auxVars>>

\* lines 353-367: the generation call raises (timeout, connection, other)
GenError ==
    /\ gen.pc = "loop" /\ gen.i <= Len(gen.contacts)
    /\ LET cid == gen.contacts[gen.i]
       IN /\ ~IsCached(cid, gen.cached_scripts)
          /\ gen' = [gen EXCEPT
                        !.filtered = @ \cup {cid},
                        !.generated = @ \cup {cid},
                        !.i = @ + 1]
    /\ UNCHANGED <<sessions, disk, uuid, apr, notes, served, fsVars, kmVars, auxVars>>

\* lines 190-206: the document of a progressive checkpoint
partial_data(g) ==
    SessionData(g.session_id, g.segment, g.campaign, g.calling_date,
                FALSE, FALSE, ContactsOf(g.prepped_contacts))

\* lines 348-351: _save_progress(); a failed write is swallowed
GenCheckpoint(ok, later) ==
    /\ gen.pc = "checkpoint"
    /\ disk' = IF ok THEN save_session_to_disk(disk, gen.session_id, partial_data(gen), later)
               ELSE disk
    /\ gen' = [gen EXCEPT !.pc = "loop", !.i = @ + 1]
    /\ UNCHANGED <<sessions, uuid, apr, notes, served, fsVars, kmVars, auxVars>>

\* lines 409-427: the final document
final_data(g) ==
    SessionData(g.session_id, g.segment, g.campaign, g.calling_date,
                TRUE, FALSE, ContactsOf(g.prepped_contacts))

\* lines 371-445: after the loop the final session is stored in memory and
\* on disk
GenFinish(later) ==
    /\ gen.pc = "loop" /\ gen.i > Len(gen.contacts)
    /\ sessions' = [sessions EXCEPT ![gen.session_id] = final_data(gen)]
    /\ disk' = save_session_to_disk(disk, gen.session_id, final_data(gen), later)
    /\ gen' = [gen EXCEPT !.pc = "complete", !.session_data = final_data(gen)]
    /\ UNCHANGED <<uuid, apr, notes, served, fsVars, kmVars, auxVars>>

\* the response ends
GenReturn ==
    /\ gen.pc \in {"done", "complete"}
    /\ gen' = GenIdle
    /\ UNCHANGED <<sessions, disk, uuid, apr, notes, served, fsVars, kmVars, auxVars>>

(***************************************************************************)
(* /quick-generate                                                         *)
(***************************************************************************)
\* lines 534-541: the entry of a contact that has a prep note in the CRM
QuickPrepped(cid) ==
    [contact |-> cid, script_content |-> "", note_html |-> latest_note_body(cid)]

\* quick_generate: a call sheet from existing prep notes; cs are the contacts
\* of the list that have a prep note, in list order.  The session is stored
\* under a fresh identifier with generation_complete and quick_mode set.
QuickGenerate(req, cs, later) ==
    /\ served < MaxRequests
    /\ served' = served + 1
    /\ gen.pc = "idle" /\ apr.pc = "idle"
    /\ strip(req.segment) # <<>> /\ strip(req.campaign) # <<>>
    /\ cs # <<>>
    /\ uuid < MaxSessions
    /\ LET session_id == uuid + 1
           session_data ==
               SessionData(session_id, strip(req.segment), strip(req.campaign),
                           strip(req.calling_date), TRUE, TRUE,
                           ContactsOf([k \in DOMAIN cs |-> QuickPrepped(cs[k])]))
       IN /\ uuid' = uuid + 1
          /\ sessions' = [sessions EXCEPT ![session_id] = session_data]
          /\ disk' = save_session_to_disk(disk, session_id, session_data, later)
    /\ UNCHANGED <<gen, apr, notes, fsVars, kmVars, auxVars>>

(***************************************************************************)
(* /approve                                                                *)
(***************************************************************************)
AprIdle ==
    [pc |-> "idle", session_id |-> 0, session_data |-> None, prev_failed |-> {},
     pending |-> <<>>, i |-> 0, success |-> 0, errors |-> 0,
     failed_contact_ids |-> <<>>, attempted |-> {}]

\* the attempt that ignores failed_contact_ids
PendingAll(session_data) == session_data.contacts

\* lines 635-644: the contacts of this attempt
Pending(session_data) ==
    LET prev_failed == Range(session_data.failed_contact_ids)
    IN IF prev_failed # {}
       THEN SelectSeq2(session_data.contacts, prev_failed)
       ELSE session_data.contacts

\* lines 625-627: the session is fetched from memory, else from disk
ApproveStart(session_id) ==
    /\ served < MaxRequests
    /\ served' = served + 1
    /\ apr.pc = "idle" /\ gen.pc = "idle"
    /\ LET session_data == get_or_load(session_id)
       IN apr' = IF session_data = None
                 THEN [AprIdle EXCEPT !.pc = "notfound", !.session_id = session_id]
                 ELSE [AprIdle EXCEPT
                          !.pc = "writing",
                          !.session_id = session_id,
                          !.session_data = session_data,
                          !.prev_failed = Range(session_data.failed_contact_ids),
                          !.pending = Pending(session_data),
                          !.i = 1]
    /\ UNCHANGED <<sessions, disk, uuid, gen, notes, fsVars, kmVars, auxVars>>

\* one more note of a contact in the CRM (2 stands for "more than one")
Inscribe(n, session_id, cid) ==
    [n EXCEPT ![session_id][cid] = IF @ < 2 THEN @ + 1 ELSE 2]

\* lines 652-670: one iteration of the write loop
ApproveWrite(ok) ==
    /\ apr.pc = "writing" /\ apr.i <= Len(apr.pending)
    /\ LET c == apr.pending[apr.i]
       IN /\ notes' = IF ok THEN Inscribe(notes, apr.session_id, c.contact_id) ELSE notes
          /\ apr' = [apr EXCEPT
                        !.attempted = @ \cup {c.contact_id},
                        !.success = IF ok THEN @ + 1 ELSE @,
                        !.errors = IF ok THEN @ ELSE @ + 1,
                        !.failed_contact_ids = IF ok THEN @ ELSE Append(@, c.contact_id),
                        !.i = @ + 1]
    /\ UNCHANGED <<sessions, disk, uuid, gen, served, fsVars, kmVars, auxVars>>

\* lines 680-688: delete on full success, else retain with the failed ids
ApproveFinish(later) ==
    /\ apr.pc = "writing" /\ apr.i > Len(apr.pending)
    /\ IF apr.errors = 0
       THEN /\ sessions' = [sessions EXCEPT ![apr.session_id] = None]
            /\ disk' = disk
            /\ apr' = [apr EXCEPT !.pc = "done"]
       ELSE LET session_data ==
                    [apr.session_data EXCEPT !.failed_contact_ids = apr.failed_contact_ids]
            IN /\ sessions' = [sessions EXCEPT ![apr.session_id] = session_data]
               /\ disk' = save_session_to_disk(disk, apr.session_id, session_data, later)
               /\ apr' = [apr EXCEPT !.pc = "done", !.session_data = session_data]
    /\ UNCHANGED <<uuid, gen, notes, served, fsVars, kmVars, auxVars>>

\* the response ends
ApproveReturn ==
    /\ apr.pc \in {"notfound", "done"}
    /\ apr' = AprIdle
    /\ UNCHANGED <<sessions, disk, uuid, gen, notes, served, fsVars, kmVars, auxVars>>

(***************************************************************************)
(* /discard, process restart                                         *)
(***************************************************************************)
\* discard: the session leaves the memory store and its file is removed
Discard(session_id) ==
    /\ served < MaxRequests
    /\ served' = served + 1
    /\ gen.pc = "idle" /\ apr.pc = "idle"
    /\ sessions[session_id] # None \/ disk[session_id] # NoFile
    /\ sessions' = [sessions EXCEPT ![session_id] = None]
    /\ disk' = Ranked([disk EXCEPT ![session_id] = NoFile])
    /\ UNCHANGED <<uuid, gen, apr, notes, fsVars, kmVars, auxVars>>

\* the process dies and restarts: memory and running streams are lost, the
\* sessions directory stays
Crash ==
    /\ \/ gen.pc # "idle" \/ apr.pc # "idle"
       \/ \E s \in SessionIds : sessions[s] # None
    /\ sessions' = [s \in SessionIds |-> None]
    /\ gen' = GenIdle
    /\ apr' = AprIdle
    /\ UNCHANGED <<disk, uuid, notes, served, fsVars, kmVars, auxVars>>


(***************************************************************************)
(* save_session_to_disk and its readers, step by step, for one session     *)
(* identifier: every writer of that identifier uses the same two paths     *)
(***************************************************************************)
MaxWriters == 2
MaxSaves == 4
NChunks == 2

Writers == 1..MaxWriters

\* line 49: path = f"sessions/prep_{session_id}.json"
Path == "path"

\* the write that goes to the canonical path itself
TmpPathInPlace == "path"

\* line 50: tmp_path = path + ".tmp"
TmpPath == "tmp_path"

\* the JSON text of the v-th document, in the chunks in which the file
\* object flushes it
Document(v) == [k \in 1..NChunks |-> v]

\* json.load accepts the content: one whole document (0 is a hole)
Complete(content) ==
    /\ Len(content) = NChunks
    /\ content[1] # 0
    /\ \A k \in DOMAIN content : content[k] = content[1]

\* write(2) of one chunk at the descriptor's offset
WriteAt(content, off, chunk) ==
    [k \in 1..(IF Len(content) > off + 1 THEN Len(content) ELSE off + 1) |->
        IF k = off + 1 THEN chunk
        ELSE IF k <= Len(content) THEN content[k] ELSE 0]

\* os.replace(src, dst): dst names the inode of src, src is gone
os_replace(ps, src, dst) ==
    IF src = dst THEN ps ELSE [ps EXCEPT ![dst] = ps[src], ![src] = 0]

WriterIdle == [pc |-> "idle", data |-> 0, fd |-> 0, off |-> 0]

NotRead == [exists |-> FALSE, content |-> <<>>]

\* what the canonical path holds
Canonical ==
    IF paths[Path] = 0 THEN NotRead
    ELSE [exists |-> TRUE, content |-> inodes[paths[Path]]]

\* line 51: open(tmp_path, "w") creates the temp file or truncates it
SaveOpen(w) ==
    /\ writers[w].pc = "idle"
    /\ version < MaxSaves
    /\ version' = version + 1
    /\ IF paths[TmpPath] = 0
       THEN /\ inodes' = Append(inodes, <<>>)
            /\ paths' = [paths EXCEPT ![TmpPath] = Len(inodes) + 1]
       ELSE /\ inodes' = [inodes EXCEPT ![paths[TmpPath]] = <<>>]
            /\ paths' = paths
    /\ writers' = [writers EXCEPT ![w] =
                      [pc |-> "writing", data |-> version + 1,
                       fd |-> paths'[TmpPath], off |-> 0]]
    /\ UNCHANGED <<seen, lifeVars, kmVars, auxVars>>

\* line 52: json.dump writes the next chunk through the open descriptor
SaveWrite(w) ==
    /\ writers[w].pc = "writing"
    /\ writers[w].off < NChunks
    /\ inodes' = [inodes EXCEPT ![writers[w].fd] =
                     WriteAt(@, writers[w].off, writers[w].data)]
    /\ writers' = [writers EXCEPT ![w].off = @ + 1]
    /\ UNCHANGED <<paths, version, seen, lifeVars, kmVars, auxVars>>

\* line 53: the file is closed and os.replace(tmp_path, path) runs; it
\* raises FileNotFoundError when the temp path is gone
SaveReplace(w) ==
    /\ writers[w].pc = "writing"
    /\ writers[w].off = NChunks
    /\ paths' = IF paths[TmpPath] = 0 THEN paths ELSE os_replace(paths, TmpPath, Path)
    /\ writers' = [writers EXCEPT ![w] = WriterIdle]
    /\ UNCHANGED <<inodes, version, seen, lifeVars, kmVars, auxVars>>

\* load_session_from_disk / find_resumable_session: open(path) and json.load
LoadRead ==
    /\ seen' = Canonical
    /\ seen' # seen
    /\ UNCHANGED <<paths, inodes, writers, version, lifeVars, kmVars, auxVars>>

\* the process dies: the writers are gone, the files stay
SaveCrash ==
    /\ \E w \in Writers : writers[w].pc # "idle"
    /\ writers' = [w \in Writers |-> WriterIdle]
    /\ UNCHANGED <<paths, inodes, version, seen, lifeVars, kmVars, auxVars>>

(***************************************************************************)
(* The key comparison of find_resumable_session on its own                 *)
(***************************************************************************)
MaxLen == 2

Chars == {"a", "A", " "}

\* the strings a request can carry
Strs == UNION {[1..n -> Chars] : n \in 0..MaxLen}

\* the strings of a stored session (generate strips them before storing)
StoredStrs == {<<"a">>, <<"A">>}

KmIdle ==
    [pc |-> "idle", segment |-> <<>>, campaign |-> <<>>, calling_date |-> <<>>,
     data |-> None, result |-> FALSE]

\* the condition of lines 80-83 is evaluated for a file and a request
KmMatch ==
    /\ km.pc = "asked"
    /\ km' = [km EXCEPT
                 !.pc = "answered",
                 !.result = KeyMatch(km.data, km.segment, km.campaign, km.calling_date)]
    /\ UNCHANGED <<lifeVars, fsVars, auxVars>>

(***************************************************************************)
(* Text: str.upper(), substring search and the regex word boundary \b      *)
(***************************************************************************)
UpperChar(c) ==
    IF \E i \in DOMAIN Lowers : Lowers[i] = c
    THEN Uppers[CHOOSE i \in DOMAIN Lowers : Lowers[i] = c]
    ELSE c

upper(s) == [i \in DOMAIN s |-> UpperChar(s[i])]

\* the characters of the regex class \w
WordChars == Range(Lowers) \cup Range(Uppers) \cup Digits \cup {"_"}

\* the positions at which w occurs in t
Occurrences(w, t) ==
    {i \in 1..(Len(t) - Len(w) + 1) : SubSeq(t, i, i + Len(w) - 1) = w}

\* `w in t`
Contains(w, t) == Occurrences(w, t) # {}

\* re.search(r'\bw\b', t) for a keyword w of word characters
SearchWord(w, t) ==
    \E i \in Occurrences(w, t) :
        /\ i = 1 \/ t[i - 1] \notin WordChars
        /\ i + Len(w) > Len(t) \/ t[i + Len(w)] \notin WordChars

(***************************************************************************)
(* call_sheet.py: title seniority and time-block scheduling                *)
(***************************************************************************)
\* title_seniority with the numbers of the Director and the Manager tiers
\* exchanged
title_seniorityManagerFirst(title) ==
    IF title = None \/ title.text = <<>> THEN 99
    ELSE LET t == upper(title.text)
             KW_CHIEF == <<"C", "H", "I", "E", "F">>
             KW_CEO == <<"C", "E", "O">>
             KW_CFO == <<"C", "F", "O">>
             KW_CTO == <<"C", "T", "O">>
             KW_CRO == <<"C", "R", "O">>
             KW_CMO == <<"C", "M", "O">>
             KW_COO == <<"C", "O", "O">>
             KW_CIO == <<"C", "I", "O">>
             KW_FOUNDER == <<"F", "O", "U", "N", "D", "E", "R">>
             KW_OWNER == <<"O", "W", "N", "E", "R">>
             KW_PRESIDENT == <<"P", "R", "E", "S", "I", "D", "E", "N", "T">>
             KW_VICE == <<"V", "I", "C", "E">>
             KW_SVP == <<"S", "V", "P">>
             KW_SENIOR_VICE == <<"S", "E", "N", "I", "O", "R", " ", "V", "I", "C", "E">>
             KW_VP == <<"V", "P">>
             KW_VICE_PRESIDENT == <<"V", "I", "C", "E", " ", "P", "R", "E", "S", "I", "D", "E", "N", "T">>
             KW_DIRECTOR == <<"D", "I", "R", "E", "C", "T", "O", "R">>
             KW_HEAD_OF == <<"H", "E", "A", "D", " ", "O", "F">>
             KW_MANAGER == <<"M", "A", "N", "A", "G", "E", "R">>
             KW_LEAD == <<"L", "E", "A", "D">>
         IN IF \/ SearchWord(KW_CHIEF, t)
               \/ \E w \in {KW_CEO, KW_CFO, KW_CTO, KW_CRO, KW_CMO, KW_COO, KW_CIO} :
                     SearchWord(w, t)
            THEN 0
            ELSE IF /\ \E w \in {KW_FOUNDER, KW_OWNER, KW_PRESIDENT} : SearchWord(w, t)
                    /\ ~Contains(KW_VICE, t)
            THEN 0
            ELSE IF Contains(KW_SVP, t) \/ Contains(KW_SENIOR_VICE, t) THEN 1
            ELSE IF SearchWord(KW_VP, t) \/ Contains(KW_VICE_PRESIDENT, t) THEN 1
            ELSE IF Contains(KW_DIRECTOR, t) \/ Contains(KW_HEAD_OF, t) THEN 3
            ELSE IF Contains(KW_MANAGER, t) \/ SearchWord(KW_LEAD, t) THEN 2
            ELSE 4

\* title_seniority (lines 11-29): lower = more senior; the title is None or
\* a string [text |-> characters], and `not title` holds for None and ""
title_seniority(title) ==
    IF title = None \/ title.text = <<>> THEN 99
    ELSE LET t == upper(title.text)
             KW_CHIEF == <<"C", "H", "I", "E", "F">>
             KW_CEO == <<"C", "E", "O">>
             KW_CFO == <<"C", "F", "O">>
             KW_CTO == <<"C", "T", "O">>
             KW_CRO == <<"C", "R", "O">>
             KW_CMO == <<"C", "M", "O">>
             KW_COO == <<"C", "O", "O">>
             KW_CIO == <<"C", "I", "O">>
             KW_FOUNDER == <<"F", "O", "U", "N", "D", "E", "R">>
             KW_OWNER == <<"O", "W", "N", "E", "R">>
             KW_PRESIDENT == <<"P", "R", "E", "S", "I", "D", "E", "N", "T">>
             KW_VICE == <<"V", "I", "C", "E">>
             KW_SVP == <<"S", "V", "P">>
             KW_SENIOR_VICE == <<"S", "E", "N", "I", "O", "R", " ", "V", "I", "C", "E">>
             KW_VP == <<"V", "P">>
             KW_VICE_PRESIDENT == <<"V", "I", "C", "E", " ", "P", "R", "E", "S", "I", "D", "E", "N", "T">>
             KW_DIRECTOR == <<"D", "I", "R", "E", "C", "T", "O", "R">>
             KW_HEAD_OF == <<"H", "E", "A", "D", " ", "O", "F">>
             KW_MANAGER == <<"M", "A", "N", "A", "G", "E", "R">>
             KW_LEAD == <<"L", "E", "A", "D">>
         IN IF \/ SearchWord(KW_CHIEF, t)
               \/ \E w \in {KW_CEO, KW_CFO, KW_CTO, KW_CRO, KW_CMO, KW_COO, KW_CIO} :
                     SearchWord(w, t)
            THEN 0
            ELSE IF /\ \E w \in {KW_FOUNDER, KW_OWNER, KW_PRESIDENT} : SearchWord(w, t)
                    /\ ~Contains(KW_VICE, t)
            THEN 0
            ELSE IF Contains(KW_SVP, t) \/ Contains(KW_SENIOR_VICE, t) THEN 1
            ELSE IF SearchWord(KW_VP, t) \/ Contains(KW_VICE_PRESIDENT, t) THEN 1
            ELSE IF Contains(KW_DIRECTOR, t) \/ Contains(KW_HEAD_OF, t) THEN 2
            ELSE IF Contains(KW_MANAGER, t) \/ SearchWord(KW_LEAD, t) THEN 3
            ELSE 4

\* the timezone names
US_Eastern == <<"U", "S", "/", "E", "a", "s", "t", "e", "r", "n">>
US_Central == <<"U", "S", "/", "C", "e", "n", "t", "r", "a", "l">>
US_Mountain == <<"U", "S", "/", "M", "o", "u", "n", "t", "a", "i", "n">>
US_Pacific == <<"U", "S", "/", "P", "a", "c", "i", "f", "i", "c">>
US_Alaska == <<"U", "S", "/", "A", "l", "a", "s", "k", "a">>
US_Hawaii == <<"U", "S", "/", "H", "a", "w", "a", "i", "i">>
UNKNOWN == <<"U", "N", "K", "N", "O", "W", "N">>

\* _RAW (lines 93-105): the blocks in ET hours; Python indexes them from 0
TIME_BLOCKS ==
    << [start_et |-> 8,  end_et |-> 9,  color |-> "green"],
       [start_et |-> 9,  end_et |-> 10, color |-> "green"],
       [start_et |-> 10, end_et |-> 11, color |-> "green"],
       [start_et |-> 11, end_et |-> 12, color |-> "green"],
       [start_et |-> 12, end_et |-> 13, color |-> "green"],
       [start_et |-> 13, end_et |-> 15, color |-> "red"],
       [start_et |-> 15, end_et |-> 16, color |-> "yellow"],
       [start_et |-> 16, end_et |-> 17, color |-> "yellow"],
       [start_et |-> 17, end_et |-> 18, color |-> "yellow"],
       [start_et |-> 18, end_et |-> 19, color |-> "yellow"],
       [start_et |-> 19, end_et |-> 20, color |-> "yellow"] >>

\* range(len(TIME_BLOCKS))
BlockIndexes == 0..(Len(TIME_BLOCKS) - 1)

\* a mapping that lists the afternoon block of the Eastern contacts first
TZ_TO_BLOCKS_AfternoonFirst ==
    [tz \in {US_Eastern, US_Central, US_Mountain, US_Pacific, US_Hawaii, US_Alaska} |->
        CASE tz = US_Eastern  -> << <<6, 1>>, <<0, 0>>, <<1, 0>>, <<7, 1>> >>
          [] tz = US_Central  -> << <<1, 0>>, <<2, 0>>, <<7, 1>>, <<8, 1>> >>
          [] tz = US_Mountain -> << <<2, 0>>, <<3, 0>>, <<8, 1>>, <<9, 1>> >>
          [] tz = US_Pacific  -> << <<3, 0>>, <<4, 0>>, <<9, 1>>, <<10, 1>> >>
          [] tz = US_Hawaii   -> << <<4, 0>> >>
          [] tz = US_Alaska   -> << <<3, 0>>, <<4, 0>> >>]

\* TZ_TO_BLOCKS (lines 120-127): tz -> list of <<block index, priority>>
TZ_TO_BLOCKS ==
    [tz \in {US_Eastern, US_Central, US_Mountain, US_Pacific, US_Hawaii, US_Alaska} |->
        CASE tz = US_Eastern  -> << <<0, 0>>, <<1, 0>>, <<6, 1>>, <<7, 1>> >>
          [] tz = US_Central  -> << <<1, 0>>, <<2, 0>>, <<7, 1>>, <<8, 1>> >>
          [] tz = US_Mountain -> << <<2, 0>>, <<3, 0>>, <<8, 1>>, <<9, 1>> >>
          [] tz = US_Pacific  -> << <<3, 0>>, <<4, 0>>, <<9, 1>>, <<10, 1>> >>
          [] tz = US_Hawaii   -> << <<4, 0>> >>
          [] tz = US_Alaska   -> << <<3, 0>>, <<4, 0>> >>]

\* the sort key of lines 153 and 155
SortKey(item) == title_seniority(item.contact.jobtitle)

\* an insertion that puts the item before the items of equal key
InsertBeforeEqual(sorted, item) ==
    LET n == Cardinality({k \in DOMAIN sorted : SortKey(sorted[k]) < SortKey(item)})
    IN SubSeq(sorted, 1, n) \o <<item>> \o SubSeq(sorted, n + 1, Len(sorted))

\* list.sort is stable: the item goes after the items of smaller or equal key
InsertSorted(sorted, item) ==
    LET n == Cardinality({k \in DOMAIN sorted : SortKey(sorted[k]) <= SortKey(item)})
    IN SubSeq(sorted, 1, n) \o <<item>> \o SubSeq(sorted, n + 1, Len(sorted))

RECURSIVE sort_by_seniority(_)
\* list.sort(key = title_seniority of the job title)
sort_by_seniority(items) ==
    IF items = <<>> THEN <<>>
    ELSE InsertSorted(sort_by_seniority(SubSeq(items, 1, Len(items) - 1)),
                      items[Len(items)])

\* a loop that forgets the contact without a block
UnplacedDropped(unknowns, item) == unknowns

\* line 144: unknowns.append(item)
Unplaced(unknowns, item) == Append(unknowns, item)

\* the block at the end of the timezone's list
last_block(tz) == TZ_TO_BLOCKS[tz][Len(TZ_TO_BLOCKS[tz])][1]

\* lines 147-148: tz_blocks[0][0]
first_block(tz) == TZ_TO_BLOCKS[tz][1][1]

RECURSIVE PlaceAll(_, _)
\* the loop of lines 139-150 over the rest of the input; r = [blocks, unknowns]
PlaceAll(items, r) ==
    IF items = <<>> THEN r
    ELSE LET item == Head(items)
             tz == item.tz
         IN IF tz = UNKNOWN \/ tz \notin DOMAIN TZ_TO_BLOCKS
            THEN PlaceAll(Tail(items), [r EXCEPT !.unknowns = Unplaced(@, item)])
            ELSE PlaceAll(Tail(items),
                          [r EXCEPT !.blocks[first_block(tz)] = Append(@, item)])

\* build_call_sheet (lines 130-157): [blocks, unknowns]
build_call_sheet(contacts_with_data) ==
    LET r == PlaceAll(contacts_with_data,
                      [blocks |-> [i \in BlockIndexes |-> <<>>], unknowns |-> <<>>])
    IN [blocks |-> [idx \in BlockIndexes |-> sort_by_seniority(r.blocks[idx])],
        unknowns |-> sort_by_seniority(r.unknowns)]

\* a scheduler that sorts its argument in place
SortedInPlace(contacts_with_data) == sort_by_seniority(contacts_with_data)

\* the argument list after the call: build_call_sheet only reads it
AfterCall(contacts_with_data) == contacts_with_data

MaxItems == 3

\* the timezones of the items: the six mapped ones, UNKNOWN, and a value
\* without mapping
SheetTzs ==
    {US_Eastern, US_Central, US_Mountain, US_Pacific, US_Alaska, US_Hawaii,
     UNKNOWN, <<"U", "T", "C">>}

\* the job titles of the items (ranks 99 and 0)
SheetTitles == {None, [text |-> <<"C", "e", "o">>]}

\* the argument lists: the contact identifier is the position in the list
SheetInputs ==
    {[k \in DOMAIN f |-> [contact |-> [id |-> k, jobtitle |-> f[k][2]], tz |-> f[k][1]]] :
        f \in UNION {[1..n -> SheetTzs \X SheetTitles] : n \in 0..MaxItems}}

SheetIdle ==
    [pc |-> "idle", input |-> <<>>, after |-> <<>>,
     first |-> build_call_sheet(<<>>), second |-> build_call_sheet(<<>>)]

\* build_call_sheet is called on the input
SheetBuild ==
    /\ sheet.pc = "input"
    /\ sheet' = [sheet EXCEPT !.pc = "built",
                              !.first = build_call_sheet(sheet.input),
                              !.after = AfterCall(sheet.input)]
    /\ UNCHANGED <<lifeVars, fsVars, kmVars, stVars, tzVars, fnVars, parVars>>

\* build_call_sheet is called once more on the same list
SheetRebuild ==
    /\ sheet.pc = "built"
    /\ sheet' = [sheet EXCEPT !.pc = "rebuilt",
                              !.second = build_call_sheet(sheet.after),
                              !.after = AfterCall(sheet.after)]
    /\ UNCHANGED <<lifeVars, fsVars, kmVars, stVars, tzVars, fnVars, parVars>>

(***************************************************************************)
(* timezone.py: resolve_timezone                                           *)
(***************************************************************************)
\* STATE_TO_TZ (lines 9-50)
STATE_TO_TZ ==
    LET States_Eastern ==
            {<<"C", "T">>, <<"D", "C">>, <<"D", "E">>, <<"F", "L">>, <<"G", "A">>,
             <<"I", "N">>, <<"M", "A">>, <<"M", "D">>, <<"M", "E">>, <<"M", "I">>,
             <<"N", "C">>, <<"N", "H">>, <<"N", "J">>, <<"N", "Y">>, <<"O", "H">>,
             <<"P", "A">>, <<"R", "I">>, <<"S", "C">>, <<"V", "A">>, <<"V", "T">>,
             <<"W", "V">>, <<"C", "O", "N", "N", "E", "C", "T", "I", "C", "U", "T">>,
             <<"D", "I", "S", "T", "R", "I", "C", "T", " ", "O", "F", " ", "C", "O", "L", "U", "M", "B", "I", "A">>,
             <<"D", "E", "L", "A", "W", "A", "R", "E">>,
             <<"F", "L", "O", "R", "I", "D", "A">>,
             <<"G", "E", "O", "R", "G", "I", "A">>,
             <<"I", "N", "D", "I", "A", "N", "A">>,
             <<"M", "A", "S", "S", "A", "C", "H", "U", "S", "E", "T", "T", "S">>,
             <<"M", "A", "R", "Y", "L", "A", "N", "D">>, <<"M", "A", "I", "N", "E">>,
             <<"M", "I", "C", "H", "I", "G", "A", "N">>,
             <<"N", "O", "R", "T", "H", " ", "C", "A", "R", "O", "L", "I", "N", "A">>,
             <<"N", "E", "W", " ", "H", "A", "M", "P", "S", "H", "I", "R", "E">>,
             <<"N", "E", "W", " ", "J", "E", "R", "S", "E", "Y">>,
             <<"N", "E", "W", " ", "Y", "O", "R", "K">>, <<"O", "H", "I", "O">>,
             <<"P", "E", "N", "N", "S", "Y", "L", "V", "A", "N", "I", "A">>,
             <<"R", "H", "O", "D", "E", " ", "I", "S", "L", "A", "N", "D">>,
             <<"S", "O", "U", "T", "H", " ", "C", "A", "R", "O", "L", "I", "N", "A">>,
             <<"V", "I", "R", "G", "I", "N", "I", "A">>,
             <<"V", "E", "R", "M", "O", "N", "T">>,
             <<"W", "E", "S", "T", " ", "V", "I", "R", "G", "I", "N", "I", "A">>}
        States_Central ==
            {<<"A", "L">>, <<"A", "R">>, <<"I", "A">>, <<"I", "L">>, <<"K", "S">>,
             <<"K", "Y">>, <<"L", "A">>, <<"M", "N">>, <<"M", "O">>, <<"M", "S">>,
             <<"N", "D">>, <<"N", "E">>, <<"O", "K">>, <<"S", "D">>, <<"T", "N">>,
             <<"T", "X">>, <<"W", "I">>, <<"A", "L", "A", "B", "A", "M", "A">>,
             <<"A", "R", "K", "A", "N", "S", "A", "S">>, <<"I", "O", "W", "A">>,
             <<"I", "L", "L", "I", "N", "O", "I", "S">>,
             <<"K", "A", "N", "S", "A", "S">>,
             <<"K", "E", "N", "T", "U", "C", "K", "Y">>,
             <<"L", "O", "U", "I", "S", "I", "A", "N", "A">>,
             <<"M", "I", "N", "N", "E", "S", "O", "T", "A">>,
             <<"M", "I", "S", "S", "O", "U", "R", "I">>,
             <<"M", "I", "S", "S", "I", "S", "S", "I", "P", "P", "I">>,
             <<"N", "O", "R", "T", "H", " ", "D", "A", "K", "O", "T", "A">>,
             <<"N", "E", "B", "R", "A", "S", "K", "A">>,
             <<"O", "K", "L", "A", "H", "O", "M", "A">>,
             <<"S", "O", "U", "T", "H", " ", "D", "A", "K", "O", "T", "A">>,
             <<"T", "E", "N", "N", "E", "S", "S", "E", "E">>,
             <<"T", "E", "X", "A", "S">>,
             <<"W", "I", "S", "C", "O", "N", "S", "I", "N">>}
        States_Mountain ==
            {<<"A", "Z">>, <<"C", "O">>, <<"I", "D">>, <<"M", "T">>, <<"N", "M">>,
             <<"U", "T">>, <<"W", "Y">>, <<"A", "R", "I", "Z", "O", "N", "A">>,
             <<"C", "O", "L", "O", "R", "A", "D", "O">>, <<"I", "D", "A", "H", "O">>,
             <<"M", "O", "N", "T", "A", "N", "A">>,
             <<"N", "E", "W", " ", "M", "E", "X", "I", "C", "O">>,
             <<"U", "T", "A", "H">>, <<"W", "Y", "O", "M", "I", "N", "G">>}
        States_Pacific ==
            {<<"C", "A">>, <<"N", "V">>, <<"O", "R">>, <<"W", "A">>,
             <<"C", "A", "L", "I", "F", "O", "R", "N", "I", "A">>,
             <<"N", "E", "V", "A", "D", "A">>, <<"O", "R", "E", "G", "O", "N">>,
             <<"W", "A", "S", "H", "I", "N", "G", "T", "O", "N">>}
        States_Hawaii ==
            {<<"H", "I">>, <<"H", "A", "W", "A", "I", "I">>}
        States_Alaska ==
            {<<"A", "K">>, <<"A", "L", "A", "S", "K", "A">>}
    IN [k \in States_Eastern \cup States_Central \cup States_Mountain
                \cup States_Pacific \cup States_Hawaii \cup States_Alaska |->
            CASE k \in States_Eastern -> US_Eastern
              [] k \in States_Central -> US_Central
              [] k \in States_Mountain -> US_Mountain
              [] k \in States_Pacific -> US_Pacific
              [] k \in States_Hawaii -> US_Hawaii
              [] k \in States_Alaska -> US_Alaska]

\* AREA_CODE_TO_TZ (lines 52-117)
AREA_CODE_TO_TZ ==
    LET Areas_Eastern ==
            {<<"2", "0", "1">>, <<"2", "0", "2">>, <<"2", "0", "3">>,
             <<"2", "0", "7">>, <<"2", "1", "2">>, <<"2", "1", "5">>,
             <<"2", "1", "6">>, <<"2", "3", "9">>, <<"2", "4", "0">>,
             <<"2", "4", "8">>, <<"2", "6", "7">>, <<"3", "0", "1">>,
             <<"3", "0", "2">>, <<"3", "0", "5">>, <<"3", "1", "3">>,
             <<"3", "1", "5">>, <<"3", "2", "1">>, <<"3", "3", "6">>,
             <<"3", "4", "7">>, <<"3", "5", "2">>, <<"3", "8", "6">>,
             <<"4", "0", "1">>, <<"4", "0", "4">>, <<"4", "0", "7">>,
             <<"4", "1", "0">>, <<"4", "1", "2">>, <<"4", "1", "3">>,
             <<"4", "3", "4">>, <<"4", "4", "0">>, <<"4", "4", "3">>,
             <<"4", "8", "4">>, <<"5", "0", "8">>, <<"5", "1", "3">>,
             <<"5", "1", "6">>, <<"5", "1", "8">>, <<"5", "4", "0">>,
             <<"5", "5", "1">>, <<"5", "6", "1">>, <<"5", "7", "0">>,
             <<"5", "7", "1">>, <<"5", "8", "5">>, <<"5", "8", "6">>,
             <<"6", "0", "3">>, <<"6", "0", "9">>, <<"6", "1", "0">>,
             <<"6", "1", "4">>, <<"6", "1", "7">>, <<"6", "3", "1">>,
             <<"6", "4", "6">>, <<"6", "7", "8">>, <<"7", "0", "3">>,
             <<"7", "0", "4">>, <<"7", "0", "6">>, <<"7", "1", "6">>,
             <<"7", "1", "8">>, <<"7", "3", "2">>, <<"7", "4", "0">>,
             <<"7", "5", "4">>, <<"7", "5", "7">>, <<"7", "7", "0">>,
             <<"7", "7", "2">>, <<"7", "7", "4">>, <<"7", "8", "1">>,
             <<"7", "8", "6">>, <<"8", "0", "2">>, <<"8", "0", "3">>,
             <<"8", "0", "4">>, <<"8", "1", "3">>, <<"8", "1", "4">>,
             <<"8", "2", "8">>, <<"8", "4", "5">>, <<"8", "4", "8">>,
             <<"8", "5", "6">>, <<"8", "5", "7">>, <<"8", "6", "0">>,
             <<"8", "6", "2">>, <<"8", "6", "3">>, <<"9", "0", "4">>,
             <<"9", "0", "8">>, <<"9", "1", "0">>, <<"9", "1", "4">>,
             <<"9", "1", "7">>, <<"9", "1", "9">>, <<"9", "4", "1">>,
             <<"9", "5", "4">>, <<"9", "7", "3">>, <<"9", "7", "8">>}
        Areas_Central ==
            {<<"2", "0", "5">>, <<"2", "1", "0">>, <<"2", "1", "4">>,
             <<"2", "1", "7">>, <<"2", "1", "9">>, <<"2", "2", "4">>,
             <<"2", "2", "5">>, <<"2", "2", "8">>, <<"2", "5", "4">>,
             <<"2", "5", "6">>, <<"2", "6", "2">>, <<"2", "8", "1">>,
             <<"3", "0", "9">>, <<"3", "1", "2">>, <<"3", "1", "4">>,
             <<"3", "1", "6">>, <<"3", "1", "7">>, <<"3", "1", "8">>,
             <<"3", "1", "9">>, <<"3", "2", "0">>, <<"3", "3", "1">>,
             <<"3", "3", "4">>, <<"3", "4", "6">>, <<"3", "6", "1">>,
             <<"4", "0", "2">>, <<"4", "0", "5">>, <<"4", "0", "9">>,
             <<"4", "1", "4">>, <<"4", "1", "7">>, <<"4", "3", "0">>,
             <<"4", "3", "2">>, <<"4", "5", "6">>, <<"4", "6", "9">>,
             <<"4", "7", "9">>, <<"5", "0", "1">>, <<"5", "0", "2">>,
             <<"5", "0", "4">>, <<"5", "0", "7">>, <<"5", "1", "2">>,
             <<"5", "1", "5">>, <<"5", "3", "1">>, <<"5", "3", "4">>,
             <<"5", "6", "3">>, <<"5", "7", "3">>, <<"6", "0", "1">>,
             <<"6", "0", "8">>, <<"6", "1", "2">>, <<"6", "1", "5">>,
             <<"6", "1", "8">>, <<"6", "2", "0">>, <<"6", "3", "0">>,
             <<"6", "3", "6">>, <<"6", "4", "1">>, <<"6", "5", "1">>,
             <<"6", "6", "0">>, <<"6", "6", "2">>, <<"6", "8", "2">>,
             <<"7", "0", "1">>, <<"7", "0", "8">>, <<"7", "1", "3">>,
             <<"7", "1", "5">>, <<"7", "1", "7">>, <<"7", "3", "1">>,
             <<"7", "3", "7">>, <<"7", "4", "3">>, <<"7", "6", "3">>,
             <<"7", "6", "9">>, <<"7", "7", "3">>, <<"7", "7", "9">>,
             <<"8", "0", "6">>, <<"8", "1", "5">>, <<"8", "1", "6">>,
             <<"8", "1", "7">>, <<"8", "3", "0">>, <<"8", "3", "2">>,
             <<"8", "4", "7">>, <<"8", "5", "0">>, <<"8", "7", "0">>,
             <<"8", "7", "2">>, <<"9", "0", "1">>, <<"9", "0", "3">>,
             <<"9", "1", "3">>, <<"9", "1", "5">>, <<"9", "2", "0">>,
             <<"9", "3", "6">>, <<"9", "4", "0">>, <<"9", "5", "2">>,
             <<"9", "5", "6">>, <<"9", "7", "2">>, <<"9", "7", "9">>}
        Areas_Mountain ==
            {<<"3", "8", "5">>, <<"7", "2", "0">>, <<"3", "0", "3">>,
             <<"3", "0", "7">>, <<"4", "0", "6">>, <<"4", "3", "5">>,
             <<"4", "8", "0">>, <<"5", "0", "5">>, <<"5", "2", "0">>,
             <<"5", "7", "5">>, <<"6", "0", "2">>, <<"6", "2", "3">>,
             <<"7", "1", "9">>, <<"8", "0", "1">>, <<"9", "2", "8">>}
        Areas_Pacific ==
            {<<"2", "0", "6">>, <<"2", "0", "9">>, <<"2", "1", "3">>,
             <<"2", "5", "3">>, <<"3", "1", "0">>, <<"3", "2", "3">>,
             <<"3", "6", "0">>, <<"4", "0", "8">>, <<"4", "1", "5">>,
             <<"4", "2", "4">>, <<"4", "2", "5">>, <<"4", "4", "2">>,
             <<"5", "0", "3">>, <<"5", "0", "9">>, <<"5", "1", "0">>,
             <<"5", "3", "0">>, <<"5", "4", "1">>, <<"5", "5", "9">>,
             <<"5", "6", "2">>, <<"6", "1", "9">>, <<"6", "2", "6">>,
             <<"6", "2", "8">>, <<"6", "5", "0">>, <<"6", "5", "7">>,
             <<"6", "6", "1">>, <<"6", "6", "9">>, <<"7", "0", "2">>,
             <<"7", "0", "7">>, <<"7", "1", "4">>, <<"7", "2", "5">>,
             <<"7", "4", "7">>, <<"7", "6", "0">>, <<"7", "7", "5">>,
             <<"8", "0", "5">>, <<"8", "1", "8">>, <<"8", "3", "1">>,
             <<"8", "5", "8">>, <<"9", "0", "9">>, <<"9", "1", "6">>,
             <<"9", "2", "5">>, <<"9", "4", "9">>, <<"9", "5", "1">>,
             <<"9", "7", "1">>}
    IN [k \in Areas_Eastern \cup Areas_Central \cup Areas_Mountain \cup Areas_Pacific |->
            CASE k \in Areas_Eastern -> US_Eastern
              [] k \in Areas_Central -> US_Central
              [] k \in Areas_Mountain -> US_Mountain
              [] k \in Areas_Pacific -> US_Pacific]

\* `value or ""` for a property that is None or a string
OrEmpty(v) == IF v = None THEN <<>> ELSE v.text

\* a resolver that does not look at hs_timezone
HintIgnored(contact_props) == <<>>

\* line 131: the trimmed hs_timezone
HintOf(contact_props) == strip(OrEmpty(contact_props.hs_timezone))

\* the state as typed, trimmed only
StateKeyAsTyped(contact_props) == strip(OrEmpty(contact_props.state))

\* line 135: the trimmed state in upper case
StateKey(contact_props) == upper(strip(OrEmpty(contact_props.state)))

IsDigit(c) == c \in Digits

\* the lookup of a phone field that keeps the leading 1
PhoneZoneWithCountryDigit(v) ==
    LET phone == strip(OrEmpty(v))
        all == SelectSeq(phone, IsDigit)
        area == SubSeq(all, 1, 3)
    IN IF Len(all) >= 10 /\ area \in DOMAIN AREA_CODE_TO_TZ
       THEN AREA_CODE_TO_TZ[area] ELSE <<>>

\* lines 140-147 for one phone field: the zone of its area code, or <<>>
PhoneZone(v) ==
    LET phone == strip(OrEmpty(v))
        all == SelectSeq(phone, IsDigit)
        digits == IF Len(all) = 11 /\ all[1] = "1" THEN Tail(all) ELSE all
        area == SubSeq(digits, 1, 3)
    IN IF Len(all) >= 10 /\ area \in DOMAIN AREA_CODE_TO_TZ
       THEN AREA_CODE_TO_TZ[area] ELSE <<>>

\* lines 139-149: mobilephone, then phone, then "UNKNOWN"
PhoneStep(contact_props) ==
    IF PhoneZone(contact_props.mobilephone) # <<>> THEN PhoneZone(contact_props.mobilephone)
    ELSE IF PhoneZone(contact_props.phone) # <<>> THEN PhoneZone(contact_props.phone)
    ELSE UNKNOWN

\* resolve_timezone (lines 129-149)
resolve_timezone(contact_props) ==
    IF HintOf(contact_props) # <<>> THEN HintOf(contact_props)
    ELSE IF /\ StateKey(contact_props) # <<>>
            /\ StateKey(contact_props) \in DOMAIN STATE_TO_TZ
         THEN STATE_TO_TZ[StateKey(contact_props)]
         ELSE PhoneStep(contact_props)

\* a property of a contact: None, or a string
Text(s) == [text |-> s]

\* "+1 (415) 555-0100"
PhonePacific ==
    <<"+", "1", " ", "(", "4", "1", "5", ")", " ", "5", "5", "5", "-", "0", "1", "0", "0">>

\* hs_timezone values: missing, empty, blank, a mapped zone, a mapped zone
\* inside blanks, a zone without mapping
TzHints ==
    {None, Text(<<>>), Text(<<" ">>), Text(US_Pacific),
     Text(<<" ">> \o US_Alaska \o <<" ">>), Text(<<"G", "M", "T">>)}

\* state values: missing, empty, codes and names in several cases and inside
\* blanks, and values that are not in the table
TzStates ==
    {None, Text(<<>>), Text(<<"N", "Y">>), Text(<<" ", "n", "y", " ">>),
     Text(<<"T", "e", "x", "a", "s">>), Text(<<"h", "i">>),
     Text(<<"X", "X">>), Text(<<"N", " ", "Y">>)}

\* phone values: missing, empty, ten digits with punctuation (212: Eastern),
\* eleven digits with a leading 1 (415: Pacific), seven digits that begin
\* with an area code of the table, ten digits with an area code that is not
\* in the table
TzPhones ==
    {None, Text(<<>>),
     Text(<<"(", "2", "1", "2", ")", " ", "5", "5", "5", "-", "0", "1", "0", "0">>),
     Text(PhonePacific),
     Text(<<"4", "1", "5", "-", "0", "1", "0", "0">>),
     Text(<<"9", "9", "9", " ", "5", "5", "5", " ", "0", "1", "0", "0">>)}

TzInputs ==
    [hs_timezone : TzHints, state : TzStates, mobilephone : TzPhones, phone : TzPhones]

TzIdle == [pc |-> "idle", contact_props |-> CHOOSE p \in TzInputs : TRUE, tz |-> <<>>]

\* resolve_timezone is called for the contact
TzResolve ==
    /\ tzr.pc = "asked"
    /\ tzr' = [tzr EXCEPT !.pc = "answered", !.tz = resolve_timezone(tzr.contact_props)]
    /\ UNCHANGED <<lifeVars, fsVars, kmVars, stVars, sheetVars, fnVars, parVars>>

(***************************************************************************)
(* title_seniority on its own                                              *)
(***************************************************************************)
\* job titles: missing, empty, the titles of the documentation's examples,
\* titles of every tier in several cases, titles with keywords of two
\* tiers, and titles in which a keyword is part of a longer word
RkTitles ==
    {None,
     Text(<<>>),
     Text(<<"V", "P", " ", "o", "f", " ", "E", "n", "g", "i", "n", "e", "e", "r", "i", "n", "g">>),
     Text(<<"E", "n", "g", "i", "n", "e", "e", "r", "i", "n", "g", " ", "M", "a", "n", "a", "g", "e", "r">>),
     Text(<<"S", "o", "f", "t", "w", "a", "r", "e", " ", "E", "n", "g", "i", "n", "e", "e", "r">>),
     Text(<<"D", "i", "r", "e", "c", "t", "o", "r", " ", "o", "f", " ", "E", "n", "g", "i", "n", "e", "e", "r", "i", "n", "g">>),
     Text(<<"c", "e", "o">>),
     Text(<<"C", "h", "i", "e", "f", " ", "o", "f", " ", "S", "t", "a", "f", "f">>),
     Text(<<"V", "i", "c", "e", " ", "P", "r", "e", "s", "i", "d", "e", "n", "t">>),
     Text(<<"C", "o", "-", "F", "o", "u", "n", "d", "e", "r">>),
     Text(<<"S", "e", "n", "i", "o", "r", " ", "V", "i", "c", "e", " ", "P", "r", "e", "s", "i", "d", "e", "n", "t">>),
     Text(<<"H", "e", "a", "d", " ", "o", "f", " ", "S", "a", "l", "e", "s">>),
     Text(<<"T", "e", "a", "m", " ", "L", "e", "a", "d">>),
     Text(<<"P", "r", "e", "s", "i", "d", "e", "n", "t", " ", "o", "f", " ", "S", "e", "r", "v", "i", "c", "e", "s">>),
     Text(<<"M", "a", "n", "a", "g", "e", "r", "i", "a", "l", " ", "A", "c", "c", "o", "u", "n", "t", "a", "n", "t">>),
     Text(<<"M", "V", "P", " ", "C", "o", "o", "r", "d", "i", "n", "a", "t", "o", "r">>),
     Text(<<"C", "E", "O", " ", "a", "n", "d", " ", "M", "a", "n", "a", "g", "e", "r">>),
     Text(<<" ">>)}

RkIdle == [pc |-> "idle", a |-> None, b |-> None, rank_a |-> 99, rank_b |-> 99]

\* title_seniority is called for both titles
RkRank ==
    /\ rk.pc = "asked"
    /\ rk' = [rk EXCEPT !.pc = "answered",
                        !.rank_a = title_seniority(rk.a),
                        !.rank_b = title_seniority(rk.b)]
    /\ UNCHANGED <<lifeVars, fsVars, kmVars, stVars, sheetVars, tzVars, rt, lp, cr, parVars>>

(***************************************************************************)
(* retry.py: retry_request                                                 *)
(***************************************************************************)
MaxRetries == 2     \* the largest max_retries of a call

\* the defaults of retry_request (lines 28-29)
base_delay == 2
max_delay == 30

RETRYABLE_STATUS_CODES == {429, 500, 502, 503, 504}

RETRYABLE_EXCEPTIONS == {"ConnectionError", "Timeout", "ChunkedEncodingError"}

\* what one call of request_func ends in: an exception of the requests
\* library, or a response with a status code and, for 429, a Retry-After
\* header (seconds, an HTTP date, or none)
Raises(name) == [exc |-> name, status |-> 0, retry_after |-> None]
Response(status, header) == [exc |-> "", status |-> status, retry_after |-> header]

RetryAfters == {None, Text(<<"5">>), Text(<<"6", "0">>), Text(<<"-", "5">>), Text(<<"W", "e", "d", ",", " ", "2", "1", " ", "O", "c", "t", " ", "2", "0", "1", "5", " ", "0", "7", ":", "2", "8", ":", "0", "0", " ", "G", "M", "T">>)}

\* 999 stands for the three-digit codes above 599, which the library hands
\* on as they come
Statuses == {200, 302, 400, 404, 500, 501, 503, 529, 999}

Outcomes ==
    {Raises(name) : name \in RETRYABLE_EXCEPTIONS}
    \cup {Response(status, None) : status \in Statuses}
    \cup {Response(429, header) : header \in RetryAfters}

\* raise_for_status that knows the server errors only
RaisesForServerError(status) == 500 <= status /\ status < 600

\* requests' Response.raise_for_status: HTTPError for 400..599
RaisesForStatus(status) == 400 <= status /\ status < 600

HTTPError(status) == [type |-> "HTTPError", status |-> status]

RECURSIVE Pow2(_)
Pow2(n) == IF n = 0 THEN 1 ELSE 2 * Pow2(n - 1)

Min(a, b) == IF a <= b THEN a ELSE b

\* float(retry_after) for a text of decimal digits with or without a sign;
\* any other text of the inputs is a ValueError (ok is FALSE)
ParseFloat(text) ==
    LET RECURSIVE value(_)
        value(t) ==
            IF t = <<>> THEN 0
            ELSE 10 * value(SubSeq(t, 1, Len(t) - 1))
                 + (CHOOSE d \in 0..9 :
                        <<"0", "1", "2", "3", "4", "5", "6", "7", "8", "9">>[d + 1]
                            = t[Len(t)])
        digits(t) == t # <<>> /\ \A i \in DOMAIN t : t[i] \in Digits
    IN  IF digits(text) THEN [ok |-> TRUE, value |-> value(text)]
        ELSE IF text # <<>> /\ Head(text) = "-" /\ digits(Tail(text))
        THEN [ok |-> TRUE, value |-> 0 - value(Tail(text))]
        ELSE [ok |-> FALSE, value |-> 0]

\* _compute_delay (lines 108-117)
compute_delay(resp, attempt) ==
    IF /\ resp.status = 429
       /\ resp.retry_after # None
       /\ resp.retry_after.text # <<>>
       /\ ParseFloat(resp.retry_after.text).ok
    THEN Min(ParseFloat(resp.retry_after.text).value, max_delay)
    ELSE Min(base_delay * Pow2(attempt), max_delay)

RtIdle ==
    [pc |-> "idle", max_retries |-> 0, attempt |-> 0, outcomes |-> <<>>,
     delay |-> 0, slept |-> <<>>, last_exc |-> "", result |-> None,
     error |-> None]

\* one pass of the loop body up to the sleep (lines 64-101): request_func is
\* called and ends in `outcome`
RtRequest(outcome) ==
    /\ rt.pc = "call"
    /\ LET called == [rt EXCEPT !.outcomes = Append(@, outcome)]
           last == rt.attempt = rt.max_retries
           retry(d) == [called EXCEPT !.pc = "sleep", !.delay = d]
       IN  rt' =
             IF outcome.exc # ""
             THEN \* except RETRYABLE_EXCEPTIONS (lines 92-101)
                  IF outcome.exc \in RETRYABLE_EXCEPTIONS
                  THEN IF last
                       THEN [called EXCEPT !.pc = "raised", !.last_exc = outcome.exc,
                                           !.error = [type |-> outcome.exc, status |-> 0]]
                       ELSE [retry(Min(base_delay * Pow2(rt.attempt), max_delay))
                                EXCEPT !.last_exc = outcome.exc]
                  ELSE [called EXCEPT !.pc = "raised",
                                      !.error = [type |-> outcome.exc, status |-> 0]]
             ELSE IF outcome.status < 400
             THEN [called EXCEPT !.pc = "returned", !.result = outcome]
             ELSE IF outcome.status < 500 /\ outcome.status # 429
                     /\ RaisesForStatus(outcome.status)
             THEN [called EXCEPT !.pc = "raised", !.error = HTTPError(outcome.status)]
             ELSE IF outcome.status \in RETRYABLE_STATUS_CODES
             THEN IF last
                  THEN [called EXCEPT !.pc = "raised", !.error = HTTPError(outcome.status)]
                  ELSE retry(compute_delay(outcome, rt.attempt))
             ELSE IF RaisesForStatus(outcome.status)
             THEN [called EXCEPT !.pc = "raised", !.error = HTTPError(outcome.status)]
             ELSE \* no exception: the loop goes on without a sleep, and after
                  \* the last pass the function ends (lines 103-105)
                  IF last
                  THEN IF rt.last_exc # ""
                       THEN [called EXCEPT !.pc = "raised",
                                           !.error = [type |-> rt.last_exc, status |-> 0]]
                       ELSE [called EXCEPT !.pc = "returned", !.result = None]
                  ELSE [called EXCEPT !.attempt = @ + 1]
    /\ UNCHANGED <<lifeVars, fsVars, kmVars, stVars, sheetVars, tzVars, rk, lp, cr, parVars>>

\* time.sleep(delay), then the next pass of the loop; a negative length is
\* a ValueError, which no handler of the function catches
RtSleep ==
    /\ rt.pc = "sleep"
    /\ rt' = IF rt.delay < 0
             THEN [rt EXCEPT !.pc = "raised",
                             !.error = [type |-> "ValueError", status |-> 0]]
             ELSE [rt EXCEPT !.pc = "call", !.attempt = @ + 1,
                             !.slept = Append(@, rt.delay)]
    /\ UNCHANGED <<lifeVars, fsVars, kmVars, stVars, sheetVars, tzVars, rk, lp, cr, parVars>>

(***************************************************************************)
(* app.py: the contact loop of generate.stream with its counters           *)
(***************************************************************************)
MaxContacts == 2    \* the largest number of members of the list

\* lines 172-177
\* the timezone labels of the contacts of the runs (timezone.py 119-153)
LpTzLabels == {"ET", "UNKNOWN"}

NoStats ==
    [total |-> 0, prepped |-> 0, skipped_subscriber |-> 0, skipped_no_email |-> 0,
     skipped_existing |-> 0, skipped_cached |-> 0, errors |-> 0,
     tz_breakdown |-> [lbl \in LpTzLabels |-> 0]]

\* events are the messages yielded so far, written is the document of the
\* last session write of the run that succeeded, unsaved are the contacts
\* whose checkpoint failed
LpIdle ==
    [pc |-> "idle", skip_existing |-> FALSE, cached_scripts |-> {},
     contact_ids |-> <<>>, contacts |-> <<>>, i |-> 0, stats |-> NoStats,
     prepped_contacts |-> <<>>, marks |-> <<>>, failed |-> <<>>,
     events |-> <<>>, written |-> None, unsaved |-> {}]

\* hs.batch_get_contacts (hubspot.py 104-114): the records of the results
\* the CRM returns for the identifiers, all of them or all but the last
BatchResults(ids) ==
    {ids} \cup (IF ids = <<>> THEN {} ELSE {SubSeq(ids, 1, Len(ids) - 1)})

\* lines 226-237: the list members are counted and their records are read
LpStart(n, cached, skip_existing, contacts) ==
    /\ lp.pc = "idle"
    /\ LET contact_ids == [k \in 1..n |-> k]
       IN /\ contacts \in BatchResults(contact_ids)
          /\ lp' = [LpIdle EXCEPT
                       !.pc = IF contact_ids = <<>> THEN "done" ELSE "loop",
                       !.skip_existing = skip_existing,
                       !.cached_scripts = cached,
                       !.contact_ids = contact_ids,
                       !.contacts = IF contact_ids = <<>> THEN <<>> ELSE contacts,
                       !.i = 1,
                       !.stats = [NoStats EXCEPT !.total = Len(contact_ids)]]
    /\ UNCHANGED <<lifeVars, fsVars, kmVars, stVars, sheetVars, tzVars, rk, rt, cr, parVars>>

\* the stats of a run without the increment of stats.prepped
PreppedUncounted(stats, tz, cached) ==
    [stats EXCEPT !.tz_breakdown[tz] = @ + 1,
                  !.skipped_cached = IF cached THEN @ + 1 ELSE @]

\* lines 253-255 and 335-345: the counters of a prepped contact
Prepped(stats, tz, cached) ==
    [stats EXCEPT !.tz_breakdown[tz] = @ + 1,
                  !.skipped_cached = IF cached THEN @ + 1 ELSE @,
                  !.prepped = @ + 1]

\* the events of a pass with the outcome put before the progress event
ContactEventsOutcomeFirst(cid, mark, generating) ==
    <<[type |-> "done_contact", contact |-> cid], [type |-> "progress", contact |-> cid]>>

\* the events a pass of the loop yields: progress (line 246), generating
\* (319) when the filters pass, and the outcome (265, 288, 303-315, 346,
\* 355-367)
ContactEvents(cid, mark, generating) ==
    <<[type |-> "progress", contact |-> cid]>>
    \o (IF generating
        THEN <<[type |-> "generating", contact |-> cid]>> ELSE <<>>)
    \o <<[type |-> CASE mark \in {"cached", "prepped"} -> "done_contact"
                     [] mark = "skipped" -> "skip"
                     [] OTHER -> "error_contact",
          contact |-> cid]>>

\* the session document of a write (lines 191-206 and 410-427)
SessionDocument(l, complete) ==
    [generation_complete |-> complete, stats |-> l.stats, contacts |-> l.prepped_contacts]

\* a checkpoint that holds the newest contact only
save_progress_last(l) ==
    [generation_complete |-> FALSE, stats |-> l.stats,
     contacts |-> <<l.prepped_contacts[Len(l.prepped_contacts)]>>]

\* _save_progress (lines 190-207)
save_progress(l) == SessionDocument(l, FALSE)

\* lines 240-369: one pass of the loop. a, b, c, g are what the calls of
\* filter A, filter B, filter C and the generation end in, for those that
\* are made; "fail" is a call that raises after its retries; tz is the
\* label of the contact's timezone and saved tells whether the checkpoint
\* write succeeds. get_associated_companies, get_company_properties and
\* search_notes_for_contact catch every exception themselves
\* (hubspot.py 116-131, 171-191), search_emails_for_contact does not.
LpContact(a, b, c, g, tz, saved) ==
    /\ lp.pc = "loop" /\ lp.i <= Len(lp.contacts)
    /\ LET cid == lp.contacts[lp.i]
           count(field, mark, failed) ==
               [lp EXCEPT !.i = @ + 1,
                          !.stats[field] = @ + 1,
                          !.marks = Append(@, mark),
                          !.failed = Append(@, failed),
                          !.events = @ \o ContactEvents(cid, mark, "G" \in failed)]
           prepare(mark, failed) ==
               [lp EXCEPT !.i = @ + 1,
                          !.stats = Prepped(@, tz, mark = "cached"),
                          !.prepped_contacts = Append(@, cid),
                          !.marks = Append(@, mark),
                          !.failed = Append(@, failed),
                          !.events = @ \o ContactEvents(cid, mark, mark = "prepped")]
           checkpoint(l) ==
               IF saved THEN [l EXCEPT !.written = save_progress(l)]
               ELSE [l EXCEPT !.unsaved = @ \cup {cid}]
           failedA == IF a = "fail" THEN {"A"} ELSE {}
           failedC == IF lp.skip_existing /\ c = "fail" THEN {"C"} ELSE {}
       IN  lp' =
             IF cid \in lp.cached_scripts
             THEN prepare("cached", {})
             ELSE IF a = "subscriber"
             THEN count("skipped_subscriber", "skipped", {})
             ELSE IF b = "fail"
             THEN count("errors", "errored", failedA \cup {"B"})
             ELSE IF b = "no_email"
             THEN count("skipped_no_email", "skipped", failedA)
             ELSE IF lp.skip_existing /\ c = "has_prep"
             THEN count("skipped_existing", "skipped", failedA)
             ELSE IF g = "ok"
             THEN checkpoint(prepare("prepped", failedA \cup failedC))
             ELSE count("errors", "errored", failedA \cup failedC \cup {"G"})
    /\ UNCHANGED <<lifeVars, fsVars, kmVars, stVars, sheetVars, tzVars, rk, rt, cr, parVars>>

\* lines 371-445: the final session write and the complete event; the write
\* is not guarded, so a failure of it ends the stream
LpFinish(saved) ==
    /\ lp.pc = "loop" /\ lp.i > Len(lp.contacts)
    /\ lp' = IF saved
             THEN [lp EXCEPT !.pc = "complete",
                             !.written = SessionDocument(lp, TRUE),
                             !.events = Append(@, [type |-> "complete", contact |-> 0])]
             ELSE [lp EXCEPT !.pc = "failed"]
    /\ UNCHANGED <<lifeVars, fsVars, kmVars, stVars, sheetVars, tzVars, rk, rt, cr, parVars>>

(***************************************************************************)
(* app.py: the credential checks of the handlers that call external APIs   *)
(***************************************************************************)
MaxCalls == 2       \* the largest number of external calls of one stream

\* for each handler: the status with which a request is rejected as invalid
\* or for a session that is not found, before the credentials are looked at
\* (0: no such test; the stages of the forge have 400 and 404), the credentials it tests before it answers with its stream, and the
\* credentials its stream calls the external APIs with
HANDLERS ==
    [generate |->
        [invalid |-> 400,
         checked |-> {"HUBSPOT_ACCESS_TOKEN", "OCTAVE_API_KEY"},
         used |-> {"HUBSPOT_ACCESS_TOKEN", "OCTAVE_API_KEY"}],
     quick_generate |->
        [invalid |-> 400,
         checked |-> {"HUBSPOT_ACCESS_TOKEN"}, used |-> {"HUBSPOT_ACCESS_TOKEN"}],
     approve |->
        [invalid |-> 404,
         checked |-> {}, used |-> {"HUBSPOT_ACCESS_TOKEN"}],
     cleanup_scan |->
        [invalid |-> 404,
         checked |-> {"HUBSPOT_ACCESS_TOKEN"}, used |-> {"HUBSPOT_ACCESS_TOKEN"}],
     execute_cleanup |->
        [invalid |-> 404,
         checked |-> {"HUBSPOT_ACCESS_TOKEN"}, used |-> {"HUBSPOT_ACCESS_TOKEN"}],
     forge_prospect |->
        [invalid |-> 0,
         checked |-> {"OCTAVE_API_KEY"}, used |-> {"OCTAVE_API_KEY"}],
     forge_enrich_companies |->
        [invalid |-> 404,
         checked |-> {"OCTAVE_API_KEY"}, used |-> {"OCTAVE_API_KEY"}],
     forge_discover_enrich_people |->
        [invalid |-> 404,
         checked |-> {"OCTAVE_API_KEY"}, used |-> {"OCTAVE_API_KEY"}]]

\* no request is being handled; `configured` are the credentials of config.py
\* that are not empty
CrIdle(configured) ==
    [configured |-> configured, handler |-> "", pc |-> "idle", status |-> 0,
     external_calls |-> 0, session_ops |-> 0]

\* a handler up to its return: a JSON error, or the Response of its stream
CrRequest(h, valid) ==
    /\ cr.pc = "idle"
    /\ cr' = IF HANDLERS[h].invalid # 0 /\ ~valid
             THEN [cr EXCEPT !.handler = h, !.pc = "rejected",
                             !.status = HANDLERS[h].invalid]
             ELSE IF HANDLERS[h].checked \ cr.configured # {}
             THEN [cr EXCEPT !.handler = h, !.pc = "rejected", !.status = 500]
             ELSE [cr EXCEPT !.handler = h, !.pc = "streaming", !.status = 200]
    /\ UNCHANGED <<lifeVars, fsVars, kmVars, stVars, sheetVars, tzVars, rk, rt, lp, parVars>>

\* the stream calls an external API through a client built from the
\* configured value, empty or not
CrExternalCall ==
    /\ cr.pc = "streaming"
    /\ cr.external_calls < MaxCalls
    /\ cr' = [cr EXCEPT !.external_calls = @ + 1]
    /\ UNCHANGED <<lifeVars, fsVars, kmVars, stVars, sheetVars, tzVars, rk, rt, lp, parVars>>

\* the stream ends with its set_session, save_session_to_disk or
\* delete_session
CrSessionWrite ==
    /\ cr.pc = "streaming"
    /\ cr' = [cr EXCEPT !.pc = "done", !.session_ops = @ + 1]
    /\ UNCHANGED <<lifeVars, fsVars, kmVars, stVars, sheetVars, tzVars, rk, rt, lp, parVars>>

(***************************************************************************)
(* app.py: the shared thread pool and the streams of the parallel stages   *)
(***************************************************************************)
MaxDomains == 8     \* the largest number of work items of the first stream

\* line 43: ThreadPoolExecutor(max_workers=8)
max_workers == 8

\* the requests of parallel stages that run at the same time, and the
\* numbers of items each may submit
Streams == {1, 2}
Sizes(s) == IF s = 1 THEN 1..MaxDomains ELSE {1, 2}

\* a stream: its position, the number n of its work items, and how many of
\* its futures are running, finished but not yet yielded by as_completed,
\* yielded, and cancelled; written: its results are stored in the session
StreamIdle ==
    [pc |-> "idle", n |-> 0, submitted |-> 0, running |-> 0, finished |-> 0,
     yielded |-> 0, cancelled |-> 0, written |-> FALSE]

\* the pool's queue of pending work items, oldest first (each item is named
\* by its stream), and the streams
PlIdle == [queue |-> <<>>, streams |-> [s \in Streams |-> StreamIdle]]

RunningItems(p) == p.streams[1].running + p.streams[2].running

PendingOf(p, s) == Cardinality({i \in DOMAIN p.queue : p.queue[i] = s})

RECURSIVE Without(_, _)
Without(queue, s) ==
    IF queue = <<>> THEN <<>>
    ELSE IF Head(queue) = s THEN Without(Tail(queue), s)
    ELSE <<Head(queue)>> \o Without(Tail(queue), s)

\* a cancel that leaves every future as it is
cancel_nothing(p, s) == p

\* _cancel_futures (lines 46-50): Future.cancel() succeeds for the futures
\* of the stream that are still pending; they leave the queue unrun
cancel_futures(p, s) ==
    [p EXCEPT !.queue = Without(@, s),
              !.streams[s].cancelled = @ + PendingOf(p, s)]

\* a stream begins: the stage's generator runs up to its first yield
\* (lines 1183-1203, 1341-1354); n items will be submitted
PsStart(s, n) ==
    /\ pl.streams[s].pc = "idle"
    /\ n \in Sizes(s)
    /\ pl' = [pl EXCEPT !.streams[s] = [StreamIdle EXCEPT !.pc = "submitting", !.n = n]]
    /\ UNCHANGED <<lifeVars, fsVars, kmVars, stVars, sheetVars, tzVars, fnVars, dd>>

\* _pool.submit of the next item (lines 1215, 1382): the future is pending
\* at the end of the queue; after the last one the stream waits in
\* as_completed
PsSubmit(s) ==
    /\ pl.streams[s].pc = "submitting"
    /\ pl' = [pl EXCEPT
                 !.queue = Append(@, s),
                 !.streams[s].submitted = @ + 1,
                 !.streams[s].pc = IF pl.streams[s].submitted + 1 = pl.streams[s].n
                                   THEN "collecting" ELSE "submitting"]
    /\ UNCHANGED <<lifeVars, fsVars, kmVars, stVars, sheetVars, tzVars, fnVars, dd>>

\* a pool that starts a thread for every item
PoolStartUnbounded ==
    /\ pl.queue # <<>>
    /\ pl' = [pl EXCEPT !.queue = Tail(@),
                        !.streams[Head(pl.queue)].running = @ + 1]
    /\ UNCHANGED <<lifeVars, fsVars, kmVars, stVars, sheetVars, tzVars, fnVars, dd>>

\* a worker thread of the pool takes the oldest pending item of the queue
PoolStart ==
    /\ pl.queue # <<>>
    /\ RunningItems(pl) < max_workers
    /\ pl' = [pl EXCEPT !.queue = Tail(@),
                        !.streams[Head(pl.queue)].running = @ + 1]
    /\ UNCHANGED <<lifeVars, fsVars, kmVars, stVars, sheetVars, tzVars, fnVars, dd>>

\* the worker function of an item of stream s returns (it catches every
\* exception, lines 1205-1212)
PoolFinish(s) ==
    /\ pl.streams[s].running > 0
    /\ pl' = [pl EXCEPT !.streams[s].running = @ - 1,
                        !.streams[s].finished = @ + 1]
    /\ UNCHANGED <<lifeVars, fsVars, kmVars, stVars, sheetVars, tzVars, fnVars, dd>>

\* as_completed yields a finished future that it has not yielded yet and
\* the loop body emits its events (lines 1217-1246). delivered = FALSE: the
\* client is gone, the generator is closed at the yield, and the finally
\* clause cancels the pending futures (lines 1247-1248); nothing after the
\* try statement runs
PsEmit(s, delivered) ==
    /\ pl.streams[s].pc = "collecting"
    /\ pl.streams[s].finished > 0
    /\ pl' = IF delivered
             THEN [pl EXCEPT !.streams[s].finished = @ - 1,
                             !.streams[s].yielded = @ + 1]
             ELSE [cancel_futures(pl, s) EXCEPT !.streams[s].pc = "closed"]
    /\ UNCHANGED <<lifeVars, fsVars, kmVars, stVars, sheetVars, tzVars, fnVars, dd>>

\* as_completed is exhausted: the finally clause finds nothing pending, the
\* results are stored in the session and the completion event is emitted
\* (lines 1250-1280)
PsComplete(s) ==
    /\ pl.streams[s].pc = "collecting"
    /\ pl.streams[s].yielded = pl.streams[s].n
    /\ pl' = [cancel_futures(pl, s) EXCEPT !.streams[s].pc = "complete",
                                           !.streams[s].written = TRUE]
    /\ UNCHANGED <<lifeVars, fsVars, kmVars, stVars, sheetVars, tzVars, fnVars, dd>>

(***************************************************************************)
(* services/dedup.py and the signal webhook of app.py                      *)
(***************************************************************************)
MaxSignals == 3     \* the number of webhook requests of a run
MaxTicks == 2       \* the number of steps of the clock
TickSeconds == 43200

DEFAULT_COOLDOWN_SECONDS == 86400    \* line 17

DdThreads == {1, 2}

DdEmails == {<<"A", "@", "x">>, <<" ", "a", "@", "x", " ">>}

SIGNAL_TIERS == {"blog_visit", "product_usage"}

DdSignalTypes == SIGNAL_TIERS \cup {"unknown_type"}

\* f"{email.lower().strip()}::{signal_type}"
DedupKey(email, signal_type) == [email |-> strip(lower(email)), signal_type |-> signal_type]

DdKeys == {DedupKey(e, g) : e \in DdEmails, g \in DdSignalTypes}

DdThreadIdle == [pc |-> "idle", key |-> None, answer |-> None]

\* _seen maps a key to its expiry; 0 stands for a key that is not in it
DdIdle ==
    [seen |-> [k \in DdKeys |-> 0], now |-> 0, n |-> 0,
     th |-> [t \in DdThreads |-> DdThreadIdle],
     upserts |-> <<>>]

is_duplicate(d, key) == d.seen[key] # 0 /\ d.seen[key] > d.now

mark_seen(d, key) == [d EXCEPT !.seen[key] = d.now + DEFAULT_COOLDOWN_SECONDS]

DdAnswer(d, t, action) ==
    [d EXCEPT !.th[t].pc = "idle", !.th[t].answer = Text(action)]

DdOthers == <<lifeVars, fsVars, kmVars, stVars, sheetVars, tzVars, fnVars, pl>>

\* lines 1764-1772: a request arrives; the email is trimmed and lowercased
DdReceive(t, email, signal_type) ==
    /\ dd.th[t].pc = "idle"
    /\ dd.n < MaxSignals
    /\ dd' = [dd EXCEPT !.n = @ + 1,
                        !.th[t] = [pc |-> "check",
                                   key |-> DedupKey(lower(strip(email)), signal_type),
                                   answer |-> None]]
    /\ UNCHANGED DdOthers

\* lines 1774-1788: the dedup check, under the lock, and the classification
DdCheck(t) ==
    /\ dd.th[t].pc = "check"
    /\ dd' = IF is_duplicate(dd, dd.th[t].key) THEN DdAnswer(dd, t, "deduplicated")
             ELSE IF dd.th[t].key.signal_type \notin SIGNAL_TIERS THEN DdAnswer(dd, t, "400")
             ELSE [dd EXCEPT !.th[t].pc = "upsert"]
    /\ UNCHANGED DdOthers

\* hs.upsert_contact_oracle: lines 1802, 1812, 1822
DdUpsert(t, ok) ==
    /\ dd.th[t].pc = "upsert"
    /\ dd' = IF ok
             THEN [dd EXCEPT !.th[t].pc = "journey",
                             !.upserts = Append(@, [key |-> dd.th[t].key, at |-> dd.now])]
             ELSE DdAnswer(dd, t, "500")
    /\ UNCHANGED DdOthers

\* hs.append_journey_log: lines 1803, 1813, 1823
DdJourney(t, ok) ==
    /\ dd.th[t].pc = "journey"
    /\ dd' = IF ok THEN [dd EXCEPT !.th[t].pc = "mark"] ELSE DdAnswer(dd, t, "500")
    /\ UNCHANGED DdOthers

\* lines 1825-1834: mark_seen, under the lock, and the answer
DdMark(t) ==
    /\ dd.th[t].pc = "mark"
    /\ dd' = DdAnswer(mark_seen(dd, dd.th[t].key), t, "processed")
    /\ UNCHANGED DdOthers

\* time passes
DdTick ==
    /\ dd.now < MaxTicks * TickSeconds
    /\ dd' = [dd EXCEPT !.now = @ + TickSeconds]
    /\ UNCHANGED DdOthers


(***************************************************************************)
(* The in-memory store with Python's object references: get_session,       *)
(* set_session and delete_session on a heap of mutable objects.  A session *)
(* is a chain of nested objects (a dict holding a list holding a dict...), *)
(* each with one scalar of its own.                                        *)
(***************************************************************************)
MaxObjects == 6
MaxDepth == 2
MaxHeld == 2

Keys == {"k"}
Vals == {0, 1}

\* no object
NoRef == 0

StInit ==
    [heap |-> <<>>, store |-> [key \in Keys |-> NoRef], held |-> <<>>,
     op |-> "none", key |-> "k", h |-> 0, ret |-> None]

RECURSIVE Chain(_, _)
\* the objects reachable from an object, outermost first
Chain(heap, ref) ==
    IF ref = NoRef THEN <<>> ELSE <<ref>> \o Chain(heap, heap[ref].child)

\* the value of an object at every nesting depth
Value(heap, ref) ==
    LET c == Chain(heap, ref) IN [d \in DOMAIN c |-> heap[c[d]].val]

\* the heap after the allocation of a new nested object with the given
\* values; the new object is Len(heap) + 1
Alloc(heap, vals) ==
    heap \o [d \in DOMAIN vals |->
                [val |-> vals[d],
                 child |-> IF d < Len(vals) THEN Len(heap) + d + 1 ELSE NoRef]]

\* copy.copy: a new outer object that shares the nested ones
shallowcopy(heap, ref) ==
    Append(heap, [val |-> heap[ref].val, child |-> heap[ref].child])

\* copy.deepcopy (line 29): every nested object is copied
deepcopy(heap, ref) == Alloc(heap, Value(heap, ref))

\* what get_session(key) returns for the caller to see: the value, or None
Stored(s, key) ==
    IF s.store[key] = NoRef THEN None ELSE [value |-> Value(s.heap, s.store[key])]

\* a caller builds a session and calls set_session(key, data): the dict
\* keeps the reference to the caller's object (lines 32-35)
StSetNew(key, vals) ==
    /\ Len(st.heap) + Len(vals) <= MaxObjects
    /\ Len(st.held) < MaxHeld
    /\ st' = [st EXCEPT
                 !.heap = Alloc(@, vals),
                 !.store[key] = Len(st.heap) + 1,
                 !.held = Append(@, [ref |-> Len(st.heap) + 1, got |-> FALSE, stored |-> TRUE]),
                 !.op = "set", !.key = key, !.h = Len(st.held) + 1, !.ret = None]
    /\ UNCHANGED <<lifeVars, fsVars, kmVars, sheetVars, tzVars, fnVars, parVars>>

\* a caller calls set_session(key, data) with an object it holds
StSetHeld(key, h) ==
    /\ h \in DOMAIN st.held
    /\ st' = [st EXCEPT
                 !.store[key] = st.held[h].ref,
                 !.held[h].stored = TRUE,
                 !.op = "set", !.key = key, !.h = h, !.ret = None]
    /\ UNCHANGED <<lifeVars, fsVars, kmVars, sheetVars, tzVars, fnVars, parVars>>

\* get_session(key), lines 27-29: None for an absent key, else a deep copy,
\* which the caller holds
StGet(key) ==
    /\ IF st.store[key] = NoRef
       THEN st' = [st EXCEPT !.op = "get", !.key = key, !.h = 0, !.ret = None]
       ELSE /\ Len(deepcopy(st.heap, st.store[key])) <= MaxObjects
            /\ Len(st.held) < MaxHeld
            /\ st' = [st EXCEPT
                         !.heap = deepcopy(@, st.store[key]),
                         !.held = Append(@, [ref |-> Len(st.heap) + 1, got |-> TRUE,
                                             stored |-> FALSE]),
                         !.op = "get", !.key = key, !.h = Len(st.held) + 1,
                         !.ret = [ref |-> Len(st.heap) + 1]]
    /\ UNCHANGED <<lifeVars, fsVars, kmVars, sheetVars, tzVars, fnVars, parVars>>

\* a caller assigns inside an object it holds, at nesting depth d
StMutate(h, d, v) ==
    /\ h \in DOMAIN st.held
    /\ d \in DOMAIN Chain(st.heap, st.held[h].ref)
    /\ st.heap[Chain(st.heap, st.held[h].ref)[d]].val # v
    /\ st' = [st EXCEPT
                 !.heap[Chain(st.heap, st.held[h].ref)[d]].val = v,
                 !.op = "mutate", !.h = h, !.ret = None]
    /\ UNCHANGED <<lifeVars, fsVars, kmVars, sheetVars, tzVars, fnVars, parVars>>

\* delete_session(key), lines 38-41
StDelete(key) ==
    /\ st.store[key] # NoRef
    /\ st' = [st EXCEPT !.store[key] = NoRef, !.op = "delete", !.key = key,
                        !.h = 0, !.ret = None]
    /\ UNCHANGED <<lifeVars, fsVars, kmVars, sheetVars, tzVars, fnVars, parVars>>

(***************************************************************************)
(* Specification of the session life cycle                                 *)
(***************************************************************************)
InitLife ==
    /\ sessions = [s \in SessionIds |-> None]
    /\ disk = [s \in SessionIds |-> NoFile]
    /\ uuid = 0
    /\ gen = GenIdle
    /\ apr = AprIdle
    /\ notes = [s \in SessionIds |-> [c \in ContactIds |-> 0]]
    /\ served = 0

InitFs ==
    /\ paths = [n \in {Path, TmpPath} |-> 0]
    /\ inodes = <<>>
    /\ writers = [w \in Writers |-> WriterIdle]
    /\ version = 0
    /\ seen = NotRead

InitFn == rk = RkIdle /\ rt = RtIdle /\ lp = LpIdle /\ cr = CrIdle({})

InitPar == pl = PlIdle /\ dd = DdIdle

InitAux == st = StInit /\ sheet = SheetIdle /\ tzr = TzIdle /\ InitFn /\ InitPar

Init == InitLife /\ InitFs /\ km = KmIdle /\ InitAux

Next ==
    \/ \E req \in Requests, found \in BOOLEAN, cs \in CrmLists,
          names \in Perms(Files(disk)) :
            GenStart(req, names, found, cs)
    \/ GenCached
    \/ \E reason \in SkipReasons : GenSkip(reason)
    \/ \E script_content \in Scripts : GenGenerate(script_content)
    \/ GenError
    \/ \E ok, later \in BOOLEAN : GenCheckpoint(ok, later)
    \/ \E later \in BOOLEAN : GenFinish(later)
    \/ GenReturn
    \/ \E req \in Requests, cs \in PrepLists, later \in BOOLEAN :
            QuickGenerate(req, cs, later)
    \/ \E session_id \in SessionIds : ApproveStart(session_id)
    \/ \E ok \in BOOLEAN : ApproveWrite(ok)
    \/ \E later \in BOOLEAN : ApproveFinish(later)
    \/ ApproveReturn
    \/ \E session_id \in SessionIds : Discard(session_id)
    \/ Crash

Spec == Init /\ [][Next]_vars

(***************************************************************************)
(* Specifications of the session file: one writer with crashes, and        *)
(* concurrent writers of one session identifier                            *)
(***************************************************************************)
InitFile == InitLife /\ InitFs /\ km = KmIdle /\ InitAux

NextCrash ==
    \/ SaveOpen(1)
    \/ SaveWrite(1)
    \/ SaveReplace(1)
    \/ LoadRead
    \/ SaveCrash

SpecCrash == InitFile /\ [][NextCrash]_vars

NextConcurrent ==
    \/ \E w \in Writers : SaveOpen(w)
    \/ \E w \in Writers : SaveWrite(w)
    \/ \E w \in Writers : SaveReplace(w)
    \/ LoadRead
    \/ SaveCrash

SpecConcurrent == InitFile /\ [][NextConcurrent]_vars

(***************************************************************************)
(* Specification of the key comparison                                     *)
(***************************************************************************)
InitMatch ==
    /\ InitLife /\ InitFs /\ InitAux
    /\ km \in {[pc |-> "asked", segment |-> seg, campaign |-> cam, calling_date |-> dat,
                data |-> SessionData(1, sseg, scam, sdat, FALSE, FALSE,
                                     <<ContactEntry("A", "X", format_note_html("X"))>>),
                result |-> FALSE] :
                  seg \in Strs, cam \in Strs, dat \in Strs,
                  sseg \in StoredStrs, scam \in StoredStrs, sdat \in StoredStrs}

NextMatch == KmMatch

SpecMatch == InitMatch /\ [][NextMatch]_vars

(***************************************************************************)
(* Specification of the store with object references                       *)
(***************************************************************************)
InitStore == InitLife /\ InitFs /\ km = KmIdle /\ InitAux

NextStore ==
    \/ \E key \in Keys, vals \in UNION {[1..n -> Vals] : n \in 1..MaxDepth} :
            StSetNew(key, vals)
    \/ \E key \in Keys, h \in 1..MaxHeld : StSetHeld(key, h)
    \/ \E key \in Keys : StGet(key)
    \/ \E h \in 1..MaxHeld, d \in 1..MaxDepth, v \in Vals : StMutate(h, d, v)
    \/ \E key \in Keys : StDelete(key)

SpecStore == InitStore /\ [][NextStore]_vars

(***************************************************************************)
(* Specification of the scheduler                                          *)
(***************************************************************************)
InitSheet ==
    /\ InitPar /\ InitLife /\ InitFs /\ km = KmIdle /\ st = StInit /\ tzr = TzIdle /\ InitFn
    /\ sheet \in {[SheetIdle EXCEPT !.pc = "input", !.input = input] :
                    input \in SheetInputs}

NextSheet == SheetBuild \/ SheetRebuild

SpecSheet == InitSheet /\ [][NextSheet]_vars

(***************************************************************************)
(* Specification of the timezone resolution                                *)
(***************************************************************************)
InitTz ==
    /\ InitPar /\ InitLife /\ InitFs /\ km = KmIdle /\ st = StInit /\ sheet = SheetIdle /\ InitFn
    /\ tzr \in {[TzIdle EXCEPT !.pc = "asked", !.contact_props = p] : p \in TzInputs}

NextTz == TzResolve

SpecTz == InitTz /\ [][NextTz]_vars

(***************************************************************************)
(* Specification of the seniority rank                                     *)
(***************************************************************************)
InitTitle ==
    /\ InitPar /\ InitLife /\ InitFs /\ km = KmIdle
    /\ st = StInit /\ sheet = SheetIdle /\ tzr = TzIdle /\ rt = RtIdle
    /\ lp = LpIdle /\ cr = CrIdle({})
    /\ rk \in {[RkIdle EXCEPT !.pc = "asked", !.a = a, !.b = b] :
                 a \in RkTitles, b \in RkTitles}

NextTitle == RkRank

SpecTitle == InitTitle /\ [][NextTitle]_vars

(***************************************************************************)
(* Specification of retry_request                                          *)
(***************************************************************************)
InitRetry ==
    /\ InitPar /\ InitLife /\ InitFs /\ km = KmIdle
    /\ st = StInit /\ sheet = SheetIdle /\ tzr = TzIdle /\ rk = RkIdle
    /\ lp = LpIdle /\ cr = CrIdle({})
    /\ rt \in {[RtIdle EXCEPT !.pc = "call", !.max_retries = n] : n \in 0..MaxRetries}

NextRetry ==
    \/ \E outcome \in Outcomes : RtRequest(outcome)
    \/ RtSleep

SpecRetry == InitRetry /\ [][NextRetry]_vars

\* the function runs on until it returns or raises
SpecRetryFair == SpecRetry /\ WF_vars(NextRetry)

(***************************************************************************)
(* Specification of the contact loop                                       *)
(***************************************************************************)
InitLoop ==
    /\ InitPar /\ InitLife /\ InitFs /\ km = KmIdle
    /\ st = StInit /\ sheet = SheetIdle /\ tzr = TzIdle /\ rk = RkIdle
    /\ rt = RtIdle /\ cr = CrIdle({})
    /\ lp = LpIdle

NextLoop ==
    \/ \E n \in 0..MaxContacts, cached \in SUBSET (1..MaxContacts),
          skip_existing \in BOOLEAN :
          \E contacts \in BatchResults([k \in 1..n |-> k]) :
              LpStart(n, cached, skip_existing, contacts)
    \/ \E a \in {"fail", "subscriber", "pass"}, b \in {"fail", "no_email", "email"},
          c \in {"fail", "has_prep", "none"},
          g \in {"ok", "Timeout", "ConnectionError", "Exception"},
          tz \in LpTzLabels, saved \in BOOLEAN :
          LpContact(a, b, c, g, tz, saved)
    \/ \E saved \in BOOLEAN : LpFinish(saved)

SpecLoop == InitLoop /\ [][NextLoop]_vars

(***************************************************************************)
(* Specification of the credential checks                                  *)
(***************************************************************************)
InitCred ==
    /\ InitPar /\ InitLife /\ InitFs /\ km = KmIdle
    /\ st = StInit /\ sheet = SheetIdle /\ tzr = TzIdle /\ rk = RkIdle
    /\ rt = RtIdle /\ lp = LpIdle
    /\ cr \in {CrIdle(configured) :
                 configured \in SUBSET {"HUBSPOT_ACCESS_TOKEN", "OCTAVE_API_KEY"}}

NextCred ==
    \/ \E h \in DOMAIN HANDLERS, valid \in BOOLEAN : CrRequest(h, valid)
    \/ CrExternalCall
    \/ CrSessionWrite

SpecCred == InitCred /\ [][NextCred]_vars

(***************************************************************************)
(* Specification of the thread pool                                        *)
(***************************************************************************)
InitPool ==
    /\ InitLife /\ InitFs /\ km = KmIdle
    /\ st = StInit /\ sheet = SheetIdle /\ tzr = TzIdle /\ InitFn
    /\ pl = PlIdle /\ dd = DdIdle

InitDedup == InitPool

NextDedup ==
    \/ \E t \in DdThreads, e \in DdEmails, g \in DdSignalTypes : DdReceive(t, e, g)
    \/ \E t \in DdThreads : DdCheck(t)
    \/ \E t \in DdThreads, ok \in BOOLEAN : DdUpsert(t, ok)
    \/ \E t \in DdThreads, ok \in BOOLEAN : DdJourney(t, ok)
    \/ \E t \in DdThreads : DdMark(t)
    \/ DdTick

SpecDedup == InitDedup /\ [][NextDedup]_vars

NextPool ==
    \/ \E s \in Streams, n \in 1..MaxDomains : PsStart(s, n)
    \/ \E s \in Streams : PsSubmit(s)
    \/ PoolStart
    \/ \E s \in Streams : PoolFinish(s)
    \/ \E s \in Streams, delivered \in BOOLEAN : PsEmit(s, delivered)
    \/ \E s \in Streams : PsComplete(s)

SpecPool == InitPool /\ [][NextPool]_vars

\* the threads run on: workers take and finish items, generators whose
\* client is there are resumed
SpecPoolFair ==
    /\ SpecPool
    /\ WF_vars(PoolStart)
    /\ \A s \in Streams :
          /\ WF_vars(PsSubmit(s))
          /\ WF_vars(PoolFinish(s))
          /\ WF_vars(PsEmit(s, TRUE))
          /\ WF_vars(PsComplete(s))

(***************************************************************************)
(* Properties of the session life cycle                                    *)
(***************************************************************************)
\* the identifiers of a session's contacts
IdsOf(session) == {session.contacts[k].contact_id : k \in DOMAIN session.contacts}

\* the session holds a non-empty artifact for the contact
HasArtifact(session, cid) ==
    \E k \in DOMAIN session.contacts :
        /\ session.contacts[k].contact_id = cid
        /\ session.contacts[k].script_content # ""

\* the session's artifacts of the contact
ArtifactsOf(session, cid) ==
    {session.contacts[k].script_content :
        k \in {j \in DOMAIN session.contacts : session.contacts[j].contact_id = cid}}

\* the contacts whose loop iteration has ended
Processed(g) == {g.contacts[k] : k \in 1..(g.i - 1)}

Resumed == gen.pc # "idle" /\ gen.prev_session # None

\* the part of the resume property about a contact with a stored artifact
CachedUntouched(cid) ==
    /\ cid \notin gen.generated
    /\ cid \notin gen.filtered
    /\ (gen.pc = "complete" /\ cid \in Range(gen.contacts))
          => ArtifactsOf(gen.session_data, cid) = ArtifactsOf(gen.prev_session, cid)

\* C1 (as stated): in a resumed run generation and filters are never invoked
\* for a contact A whose artifact the prior session holds, generation is
\* invoked for every contact B of the prior session without artifact, and
\* the final session's artifact for A is the prior one.
C1_ResumeGeneratesEveryUncached ==
    Resumed =>
        \A cid \in ContactIds :
            /\ HasArtifact(gen.prev_session, cid) => CachedUntouched(cid)
            /\ (/\ gen.pc = "complete"
                /\ cid \in Range(gen.contacts)
                /\ cid \in IdsOf(gen.prev_session)
                /\ ~HasArtifact(gen.prev_session, cid)) => cid \in gen.generated

\* C1 (amended): in a resumed run generation and filters are never invoked
\* for a contact A whose artifact the prior session holds and the final
\* session's artifact for A is the prior one; every other contact B goes
\* through the filters, and generation is invoked for B exactly when no
\* filter skips B.
C1_ResumeSkipsCached ==
    Resumed =>
        \A cid \in ContactIds :
            /\ HasArtifact(gen.prev_session, cid) => CachedUntouched(cid)
            /\ (cid \in Processed(gen) /\ ~HasArtifact(gen.prev_session, cid)) =>
                  /\ cid \in gen.filtered
                  /\ cid \in gen.generated <=> cid \notin gen.skipped

\* a resumed run completed with A recalled from the prior session and B,
\* which the prior session held without artifact, generated again
C1_Witness ==
    /\ Resumed /\ gen.pc = "complete"
    /\ HasArtifact(gen.prev_session, "A")
    /\ "B" \in IdsOf(gen.prev_session) /\ ~HasArtifact(gen.prev_session, "B")
    /\ "B" \in gen.generated /\ "A" \notin gen.generated
    /\ HasArtifact(gen.session_data, "A")

\* C2: while a resumed run is in progress the session file holds the
\* artifact of every contact of the list that had one in the prior session.
C2_CheckpointKeepsArtifacts ==
    (Resumed /\ gen.pc \in {"loop", "checkpoint", "complete"}) =>
        \A cid \in Range(gen.contacts) :
            HasArtifact(gen.prev_session, cid) =>
                /\ disk[gen.session_id] # NoFile
                /\ HasArtifact(disk[gen.session_id].data, cid)

\* C3: after a commit attempt without failed write the session is gone from
\* memory and from disk; after an attempt with failed writes it is retained
\* with exactly the failed identifiers.
C3_CommitOutcome ==
    apr.pc = "done" =>
        IF apr.errors = 0
        THEN /\ get_session(apr.session_id) = None
             /\ load_session_from_disk(apr.session_id) = None
        ELSE /\ get_session(apr.session_id) # None
             /\ load_session_from_disk(apr.session_id) # None
             /\ Range(get_session(apr.session_id).failed_contact_ids)
                    = {cid \in apr.attempted : cid \in Range(apr.failed_contact_ids)}
             /\ load_session_from_disk(apr.session_id) = get_session(apr.session_id)

\* C4: a commit attempt on a session whose failed_contact_ids is not empty
\* attempts a write for the contacts of that list and for no other contact.
C4_RetryOnlyFailed ==
    /\ (apr.pc = "writing" /\ apr.session_data.failed_contact_ids # <<>>) =>
          /\ apr.attempted \subseteq Range(apr.session_data.failed_contact_ids)
          /\ apr.i > Len(apr.pending) =>
                apr.attempted = Range(apr.session_data.failed_contact_ids)
    /\ (apr.pc = "done" /\ apr.prev_failed # {}) => apr.attempted = apr.prev_failed

\* the second attempt on a session of A and B, in which B was written by the
\* first attempt and A failed, has written A only
C4_Witness ==
    /\ apr.pc = "writing" /\ apr.i > Len(apr.pending)
    /\ IdsOf(apr.session_data) = {"A", "B"}
    /\ Range(apr.session_data.failed_contact_ids) = {"A"}
    /\ apr.attempted = {"A"}
    /\ notes[apr.session_id]["B"] = 1

\* C5: no contact of a session is written successfully more than once, and
\* when a commit attempt ends without failure every contact of the session
\* has been written.
C5_WrittenExactlyOnce ==
    /\ \A s \in SessionIds, cid \in ContactIds : notes[s][cid] <= 1
    /\ (apr.pc = "done" /\ apr.errors = 0) =>
          \A cid \in IdsOf(apr.session_data) : notes[apr.session_id][cid] >= 1

\* C6: the session that find_resumable_session returns is not complete and
\* holds a non-empty artifact.
C6_ResumesOnlyResumable ==
    Resumed =>
        /\ gen.prev_session.generation_complete = FALSE
        /\ \E cid \in ContactIds : HasArtifact(gen.prev_session, cid)

\* the files that match a request and have a non-empty contacts list
Candidates(req) ==
    {s \in Files(disk) :
        KeyMatch(disk[s].data, strip(req.segment), strip(req.campaign),
                 strip(req.calling_date))}

\* C7: among the matching sessions with a non-empty contacts list
\* find_resumable_session returns one whose file has the latest
\* modification time, and <<None, None>> when there is none.
C7_LatestCandidate ==
    \A req \in Requests, names \in Perms(Files(disk)) :
        LET r == find_resumable_session(disk, names, strip(req.segment),
                                        strip(req.campaign), strip(req.calling_date))
        IN IF Candidates(req) = {} THEN r = <<None, None>>
           ELSE \E s \in Candidates(req) :
                   /\ r = <<disk[s].data.session_id, disk[s].data>>
                   /\ \A t \in Candidates(req) : disk[t].mtime <= disk[s].mtime

\* a run has resumed the newer of two matching sessions
C7_Witness ==
    /\ Resumed /\ gen.pc = "loop" /\ gen.i = 1
    /\ \E s, t \in Files(disk) :
          /\ s # t
          /\ disk[t].mtime < disk[s].mtime
          /\ disk[t].data.contacts # <<>>
          /\ gen.prev_session = disk[s].data

(***************************************************************************)
(* Properties of the key comparison                                        *)
(***************************************************************************)
\* s without its leading and trailing whitespace
Trimmed(s) ==
    LET ink == {i \in DOMAIN s : s[i] \notin Whitespace}
    IN IF ink = {} THEN <<>>
       ELSE SubSeq(s, CHOOSE i \in ink : \A j \in ink : i <= j,
                      CHOOSE i \in ink : \A j \in ink : j <= i)

\* equal up to the case of the letters
SameIgnoringCase(s, t) ==
    /\ Len(s) = Len(t)
    /\ \A i \in DOMAIN s : LowerChar(s[i]) = LowerChar(t[i])

\* C8 (as stated): a stored session matches a request exactly when segment,
\* campaign and calling date are equal after trimming and lowercasing.
C8_AllFieldsLowercased ==
    km.pc = "answered" =>
        (km.result <=>
            /\ SameIgnoringCase(Trimmed(km.data.segment), Trimmed(km.segment))
            /\ SameIgnoringCase(Trimmed(km.data.campaign), Trimmed(km.campaign))
            /\ SameIgnoringCase(Trimmed(km.data.calling_date), Trimmed(km.calling_date)))

\* C8 (amended): a stored session matches a request exactly when segment and
\* campaign are equal after trimming and lowercasing and the calling dates
\* are equal after trimming (the case of the calling date counts).
C8_DateTrimmedOnly ==
    km.pc = "answered" =>
        (km.result <=>
            /\ SameIgnoringCase(Trimmed(km.data.segment), Trimmed(km.segment))
            /\ SameIgnoringCase(Trimmed(km.data.campaign), Trimmed(km.campaign))
            /\ Trimmed(km.data.calling_date) = Trimmed(km.calling_date))

\* a request that differs from the stored key in case and in surrounding
\* whitespace has matched
C8_Witness ==
    /\ km.pc = "answered" /\ km.result
    /\ km.data.segment = <<"A">> /\ km.segment = <<" ", "a">>
    /\ km.data.campaign = <<"a">> /\ km.campaign = <<"A", " ">>
    /\ km.data.calling_date = <<"A">> /\ km.calling_date = <<"A", " ">>

(***************************************************************************)
(* Properties of the session file                                          *)
(***************************************************************************)
\* C9: with crashes at any point of a write, the canonical path never holds
\* a truncated or mixed document, and only the rename changes what it
\* holds: to the complete document of the writer that renames.
C9_CrashAtomic ==
    /\ [](Canonical.exists => Complete(Canonical.content))
    /\ [][\/ Canonical' = Canonical
          \/ \E w \in Writers :
                /\ writers[w].pc = "writing" /\ writers[w].off = NChunks
                /\ writers'[w].pc = "idle"
                /\ Canonical' = [exists |-> TRUE, content |-> Document(writers[w].data)]]_vars

\* a crash in the middle of a write left a partial temp file next to the
\* complete earlier document, which a reader has then read
C9_Witness ==
    /\ \A w \in Writers : writers[w].pc = "idle"
    /\ paths[TmpPath] # 0 /\ paths[TmpPath] # paths[Path]
    /\ Len(inodes[paths[TmpPath]]) = 1
    /\ Canonical.exists /\ Complete(Canonical.content)
    /\ seen = Canonical

\* C10: no reader of the canonical path ever reads a half-written document,
\* also when two writers checkpoint the same session identifier at once.
C10_NoTornRead == seen.exists => Complete(seen.content)

(***************************************************************************)
(* Properties of the generation loop                                       *)
(***************************************************************************)
\* the run has appended an artifact it generated itself in this step
AppendsGenerated ==
    /\ gen.pc = "loop" /\ gen'.pc # "idle"
    /\ Len(gen'.prepped_contacts) = Len(gen.prepped_contacts) + 1
    /\ ~IsCached(gen.contacts[gen.i], gen.cached_scripts)

\* the outcomes of a call of _save_progress: the file is replaced by the
\* document of the contacts appended so far, or the write fails
CheckpointOutcomes ==
    {disk} \cup {save_session_to_disk(disk, gen.session_id, partial_data(gen), later) :
                    later \in BOOLEAN}

\* C11: in the generation loop a checkpoint write is attempted after every
\* successfully generated artifact, and the loop does not move to contact
\* i+1 before the checkpoint write of contact i has returned: the step that
\* appends a generated artifact stays on its contact with the checkpoint
\* due, and the only step of the run that follows is the checkpoint call,
\* which then moves to the next contact.
C11_CheckpointBeforeNext ==
    [][/\ AppendsGenerated => (gen'.pc = "checkpoint" /\ gen'.i = gen.i)
       /\ (gen.pc = "checkpoint" /\ gen' # gen /\ gen'.pc # "idle") =>
              /\ disk' \in CheckpointOutcomes
              /\ gen' = [gen EXCEPT !.pc = "loop", !.i = @ + 1]]_vars

\* both contacts of the list were generated in this run, each followed by
\* its checkpoint, and the file holds both
C11_Witness ==
    /\ gen.pc = "loop" /\ gen.i = 3
    /\ gen.generated = {"A", "B"} /\ Len(gen.prepped_contacts) = 2
    /\ disk[gen.session_id] # NoFile
    /\ disk[gen.session_id].data = partial_data(gen)

\* the artifacts generated so far in the run (not recalled from the prior
\* session) that the session file on disk does not hold
MissingOnDisk ==
    {k \in DOMAIN gen.prepped_contacts :
        /\ ~IsCached(gen.prepped_contacts[k].contact, gen.cached_scripts)
        /\ \/ disk[gen.session_id] = NoFile
           \/ ~\E j \in DOMAIN disk[gen.session_id].data.contacts :
                 /\ disk[gen.session_id].data.contacts[j].contact_id =
                        gen.prepped_contacts[k].contact
                 /\ disk[gen.session_id].data.contacts[j].script_content =
                        gen.prepped_contacts[k].script_content}

\* C12: at any point of a generation run at most one artifact generated so
\* far in that run is missing from the session file on disk.
C12_AtMostOneMissing ==
    gen.pc \in {"loop", "checkpoint", "complete"} => Cardinality(MissingOnDisk) <= 1

\* the document of a session file, or NoFile
FileData(d, s) == IF d[s] = NoFile THEN NoFile ELSE d[s].data

\* a generation run starts in this step
RunStarts == gen.pc = "idle" /\ gen'.pc # "idle"

\* a generation run goes on in this step
RunGoesOn == gen.pc # "idle" /\ gen'.pc # "idle" /\ gen' # gen

\* C14: on generation start, if find_resumable returns a prior session the
\* run takes that session's identifier and no fresh token is created,
\* otherwise a fresh identifier is created (one that names no session yet);
\* the run keeps its identifier, and its checkpoints and its final write
\* change the file of that identifier only.
C14_ResumeReusesIdentifier ==
    [][/\ RunStarts =>
             IF gen'.prev_session # None
             THEN /\ gen'.session_id = gen'.prev_session.session_id
                  /\ FileData(disk, gen'.session_id) = gen'.prev_session
                  /\ uuid' = uuid
             ELSE /\ uuid' = uuid + 1
                  /\ gen'.session_id = uuid'
                  /\ disk[gen'.session_id] = NoFile /\ sessions[gen'.session_id] = None
       /\ RunGoesOn =>
             /\ gen'.session_id = gen.session_id
             /\ uuid' = uuid
             /\ \A s \in SessionIds \ {gen.session_id} : FileData(disk', s) = FileData(disk, s)
             /\ gen.pc = "checkpoint" =>
                    FileData(disk', gen.session_id) \in
                        {FileData(disk, gen.session_id), partial_data(gen)}
             /\ gen'.pc = "complete" =>
                    FileData(disk', gen.session_id) = final_data(gen)]_vars

\* a resumed run under the prior session's identifier, while a second
\* session exists, has checkpointed and then completed in the prior
\* session's file
C14_Witness ==
    /\ gen.pc = "complete" /\ gen.prev_session # None
    /\ gen.session_id = gen.prev_session.session_id
    /\ gen.generated # {}
    /\ uuid = 2 /\ gen.session_id = 1
    /\ disk[2] # NoFile
    /\ FileData(disk, 1) = gen.session_data

(***************************************************************************)
(* Properties of the store with object references                          *)
(***************************************************************************)
\* the step is a mutation through a reference that get returned and that
\* was not passed to set afterwards
MutatesReturned ==
    /\ st'.op = "mutate" /\ st' # st
    /\ st.held[st'.h].got /\ ~st.held[st'.h].stored

\* C13: get(key) returns an independent copy: get of a stored key returns a
\* new object with the stored value, get of an absent key returns None, and
\* a mutation of a returned value at any nesting depth, without a call of
\* set, leaves what a later get of every key returns unchanged.
C13_GetReturnsIndependentCopy ==
    [][/\ MutatesReturned => \A key \in Keys : Stored(st', key) = Stored(st, key)
       /\ (st'.op = "get" /\ st' # st) =>
             IF st.store[st'.key] = NoRef THEN st'.ret = None
             ELSE /\ st'.ret # None
                  /\ [value |-> Value(st'.heap, st'.ret.ref)] = Stored(st, st'.key)
                  /\ Stored(st', st'.key) = Stored(st, st'.key)]_vars

\* a returned session was mutated in a nested object and differs there from
\* what the store holds under the key, which is what it held before
C13_Witness ==
    /\ st.op = "mutate" /\ st.held[st.h].got /\ ~st.held[st.h].stored
    /\ Stored(st, "k") # None
    /\ Len(Stored(st, "k").value) = 2
    /\ Len(Value(st.heap, st.held[st.h].ref)) = 2
    /\ Value(st.heap, st.held[st.h].ref)[2] # Stored(st, "k").value[2]

(***************************************************************************)
(* Properties of the scheduler                                             *)
(***************************************************************************)
SheetBuilt == sheet.pc \in {"built", "rebuilt"}

\* the places of a result: <<block index, position>>, the unplaced bucket
\* being "block" -1
Slots(r) ==
    UNION {{<<idx, k>> : k \in DOMAIN r.blocks[idx]} : idx \in DOMAIN r.blocks}
        \cup {<<-1, k>> : k \in DOMAIN r.unknowns}

At(r, slot) == IF slot[1] = -1 THEN r.unknowns[slot[2]] ELSE r.blocks[slot[1]][slot[2]]

\* the places of an item in a result
SlotsOf(r, item) == {slot \in Slots(r) : At(r, slot) = item}

\* C15: the scheduler never drops or duplicates a contact: each input item
\* appears exactly once in the union of the 11 block lists and the unplaced
\* bucket, and the total count is the length of the input.
C15_EveryContactOnce ==
    SheetBuilt =>
        /\ DOMAIN sheet.first.blocks = 0..10
        /\ \A k \in DOMAIN sheet.input :
              Cardinality(SlotsOf(sheet.first, sheet.input[k])) = 1
        /\ Cardinality(Slots(sheet.first)) = Len(sheet.input)

\* three contacts scheduled, one of them without a block
C15_Witness ==
    /\ sheet.pc = "built" /\ Len(sheet.input) = 3
    /\ Len(sheet.first.unknowns) = 1
    /\ Cardinality({idx \in 0..10 : sheet.first.blocks[idx] # <<>>}) = 2

\* the block the claim names for a timezone, -1 for the unplaced bucket
ClaimedBlock(tz) ==
    CASE tz = US_Eastern -> 0
      [] tz = US_Central -> 1
      [] tz = US_Mountain -> 2
      [] tz = US_Pacific -> 3
      [] tz = US_Alaska -> 3
      [] tz = US_Hawaii -> 4
      [] OTHER -> -1

\* C16: a contact whose timezone has a mapping is placed in exactly the
\* first block of the mapping (Eastern 0, Central 1, Mountain 2, Pacific 3,
\* Alaska 3, Hawaii 4); a contact whose timezone is UNKNOWN or absent from
\* the mapping is in no numbered block, only in the unplaced bucket, and
\* the scheduling produces a result for it.
C16_FirstBlockPlacement ==
    SheetBuilt =>
        \A k \in DOMAIN sheet.input :
            /\ SlotsOf(sheet.first, sheet.input[k]) # {}
            /\ \A slot \in SlotsOf(sheet.first, sheet.input[k]) :
                  slot[1] = ClaimedBlock(sheet.input[k].tz)

\* an Alaska contact in block 3, and two contacts without mapping (UNKNOWN
\* and another value) in the unplaced bucket
C16_Witness ==
    /\ sheet.pc = "built"
    /\ \E k \in DOMAIN sheet.first.blocks[3] : sheet.first.blocks[3][k].tz = US_Alaska
    /\ {sheet.first.unknowns[k].tz : k \in DOMAIN sheet.first.unknowns}
          = {UNKNOWN, <<"U", "T", "C">>}

\* the list is in ascending rank order, contacts of equal rank in the order
\* of the input (the identifier is the input position)
SortedStable(list) ==
    \A i, j \in DOMAIN list :
        i < j =>
            /\ title_seniority(list[i].contact.jobtitle)
                  <= title_seniority(list[j].contact.jobtitle)
            /\ title_seniority(list[i].contact.jobtitle)
                  = title_seniority(list[j].contact.jobtitle)
                  => list[i].contact.id < list[j].contact.id

\* C17: after scheduling every block list and the unplaced bucket is ordered
\* ascending by seniority rank, and contacts of equal rank in one bucket
\* keep their relative input order.
C17_SortedAndStable ==
    SheetBuilt =>
        /\ \A idx \in DOMAIN sheet.first.blocks : SortedStable(sheet.first.blocks[idx])
        /\ SortedStable(sheet.first.unknowns)

\* a block in which a later, more senior contact has moved in front of two
\* contacts of equal rank
C17_Witness ==
    /\ sheet.pc = "built"
    /\ \E idx \in 0..10 :
          /\ Len(sheet.first.blocks[idx]) = 3
          /\ sheet.first.blocks[idx][1].contact.id = 2
          /\ sheet.first.blocks[idx][2].contact.id = 1
          /\ sheet.first.blocks[idx][3].contact.id = 3
          /\ title_seniority(sheet.first.blocks[idx][2].contact.jobtitle)
                = title_seniority(sheet.first.blocks[idx][3].contact.jobtitle)

TzAnswered == tzr.pc = "answered"

\* the contact has a hint that is not empty after trimming
HasHint(p) == p.hs_timezone # None /\ strip(p.hs_timezone.text) # <<>>

\* the contacts that differ from p in the state and phone fields only
SameHint(p) == {q \in TzInputs : q.hs_timezone = p.hs_timezone}

StateZone(p) ==
    IF p.state = None THEN <<>>
    ELSE LET hits == {k \in DOMAIN STATE_TO_TZ : lower(k) = lower(strip(p.state.text))}
         IN IF hits = {} THEN <<>> ELSE STATE_TO_TZ[CHOOSE k \in hits : TRUE]

\* the contacts that differ from p in the phone fields only
SamePhoneless(p) ==
    {q \in TzInputs : q.hs_timezone = p.hs_timezone /\ q.state = p.state}

\* C20: for every contact without a hint whose state (two-letter code or
\* full name, case-insensitive, trimmed) is in the state table, resolve
\* returns the state's zone and the phone fields have no influence; with an
\* unrecognized state the result is that of the phone step.
C20_StateBeforePhone ==
    (TzAnswered /\ ~HasHint(tzr.contact_props)) =>
        IF StateZone(tzr.contact_props) # <<>>
        THEN /\ tzr.tz = StateZone(tzr.contact_props)
             /\ \A q \in SamePhoneless(tzr.contact_props) : resolve_timezone(q) = tzr.tz
        ELSE tzr.tz = PhoneStep(tzr.contact_props)

\* a contact without hint, with a state in lower case between blanks and a
\* phone of another zone, resolved to the state's zone
C20_Witness ==
    /\ TzAnswered
    /\ tzr.contact_props.hs_timezone = Text(<<" ">>)
    /\ tzr.contact_props.state = Text(<<" ", "n", "y", " ">>)
    /\ PhoneZone(tzr.contact_props.phone) = US_Pacific
    /\ tzr.tz = US_Eastern

\* the digits of a phone field, without a leading 1 when there are 11
PhoneDigits(v) ==
    LET all == IF v = None THEN <<>> ELSE SelectSeq(v.text, IsDigit)
    IN IF Len(all) = 11 /\ Head(all) = "1" THEN Tail(all) ELSE all

\* the zone of the first 3 digits of a phone field that has at least
\* `least` digits, <<>> when the table has none
AreaZone(v, least) ==
    LET all == IF v = None THEN <<>> ELSE SelectSeq(v.text, IsDigit)
        area == IF Len(PhoneDigits(v)) >= 3 THEN SubSeq(PhoneDigits(v), 1, 3)
                ELSE PhoneDigits(v)
    IN IF Len(all) >= least /\ area \in DOMAIN AREA_CODE_TO_TZ
       THEN AREA_CODE_TO_TZ[area] ELSE <<>>

\* mobile phone first, then primary phone, then Unknown
FirstAreaZone(p, least) ==
    IF AreaZone(p.mobilephone, least) # <<>> THEN AreaZone(p.mobilephone, least)
    ELSE IF AreaZone(p.phone, least) # <<>> THEN AreaZone(p.phone, least)
    ELSE UNKNOWN

\* the contact has no hint and no recognized state
PhoneDecides(p) == ~HasHint(p) /\ StateZone(p) = <<>>

\* C21 (as stated): with no hint and no recognized state, the first of
\* mobile phone and primary phone whose first 3 digits (after stripping the
\* non-digits and a leading 1 of 11 digits) are in the area-code table
\* decides the result, and the result is Unknown if neither is.
C21_FirstThreeDigitsDecide ==
    (TzAnswered /\ PhoneDecides(tzr.contact_props)) =>
        tzr.tz = FirstAreaZone(tzr.contact_props, 0)

\* C21 (amended): the same, for the phone fields that hold at least 10
\* digits; a field with fewer digits is passed over.
C21_TenDigitPhonesDecide ==
    (TzAnswered /\ PhoneDecides(tzr.contact_props)) =>
        tzr.tz = FirstAreaZone(tzr.contact_props, 10)

\* a contact with an unrecognized state, a mobile phone of seven digits and
\* the primary phone "+1 (415) 555-0100" resolved to Pacific
C21_Witness ==
    /\ TzAnswered /\ PhoneDecides(tzr.contact_props)
    /\ tzr.contact_props.state = Text(<<"X", "X">>)
    /\ tzr.contact_props.mobilephone # None
    /\ Len(PhoneDigits(tzr.contact_props.mobilephone)) = 7
    /\ tzr.contact_props.phone = Text(PhonePacific)
    /\ tzr.tz = US_Pacific

\* C22: for every contact, resolve returns one of the seven values of the
\* fixed enumeration {Eastern, Central, Mountain, Pacific, Hawaii, Alaska,
\* Unknown}.
C22_ResultInEnumeration ==
    TzAnswered =>
        tzr.tz \in {US_Eastern, US_Central, US_Mountain, US_Pacific, US_Hawaii,
                    US_Alaska, UNKNOWN}

(***************************************************************************)
(* Properties of the seniority rank                                        *)
(***************************************************************************)
RkAnswered == rk.pc = "answered"

\* the keywords of the documentation's tiers; tier 0 is C-level, or one of
\* the owner words without "Vice"
TierWords ==
    [chief |-> {<<"C", "H", "I", "E", "F">>, <<"C", "E", "O">>, <<"C", "F", "O">>, <<"C", "T", "O">>, <<"C", "R", "O">>, <<"C", "M", "O">>, <<"C", "O", "O">>, <<"C", "I", "O">>},
     owner |-> {<<"F", "O", "U", "N", "D", "E", "R">>, <<"O", "W", "N", "E", "R">>, <<"P", "R", "E", "S", "I", "D", "E", "N", "T">>},
     vice |-> <<"V", "I", "C", "E">>,
     t1 |-> {<<"S", "V", "P">>, <<"S", "E", "N", "I", "O", "R", " ", "V", "I", "C", "E">>, <<"V", "P">>, <<"V", "I", "C", "E", " ", "P", "R", "E", "S", "I", "D", "E", "N", "T">>},
     t2 |-> {<<"D", "I", "R", "E", "C", "T", "O", "R">>, <<"H", "E", "A", "D", " ", "O", "F">>},
     t3 |-> {<<"M", "A", "N", "A", "G", "E", "R">>, <<"L", "E", "A", "D">>}]

TierSet(r) == IF r = 1 THEN TierWords.t1 ELSE IF r = 2 THEN TierWords.t2 ELSE TierWords.t3

\* the title t (in upper case) matches tier r when keywords are whole words
WordMatch(r, t) ==
    IF r = 0
    THEN \/ \E w \in TierWords.chief : SearchWord(w, t)
         \/ /\ \E w \in TierWords.owner : SearchWord(w, t)
            /\ ~SearchWord(TierWords.vice, t)
    ELSE \E w \in TierSet(r) : SearchWord(w, t)

\* t matches tier r under every reading of "matches": keywords are whole
\* words and "Vice" occurs nowhere, not even inside a word
SurelyMatches(r, t) ==
    IF r = 0
    THEN \/ \E w \in TierWords.chief : SearchWord(w, t)
         \/ /\ \E w \in TierWords.owner : SearchWord(w, t)
            /\ ~Contains(TierWords.vice, t)
    ELSE \E w \in TierSet(r) : SearchWord(w, t)

\* t matches tier r under some reading: a keyword occurs at least inside a
\* word, and "Vice" is not a word of the title
PossiblyMatches(r, t) ==
    IF r = 0
    THEN \/ \E w \in TierWords.chief : Contains(w, t)
         \/ /\ \E w \in TierWords.owner : Contains(w, t)
            /\ ~SearchWord(TierWords.vice, t)
    ELSE \E w \in TierSet(r) : Contains(w, t)

NoTitle(title) == title = None \/ title.text = <<>>

\* rank is the number of the first matching tier of title
FirstTier(title, rank) ==
    /\ rank \in {0, 1, 2, 3, 4, 99}
    /\ (rank = 99 <=> NoTitle(title))
    /\ ~NoTitle(title) =>
          LET t == upper(title.text)
          IN  /\ (rank < 4 => PossiblyMatches(rank, t))
              /\ \A q \in 0..3 : q < rank => ~SurelyMatches(q, t)

\* title is a title of tier r: it surely matches r and cannot match an
\* earlier tier (r = 4: it cannot match any tier)
OfTier(title, r) ==
    /\ ~NoTitle(title)
    /\ (r < 4 => SurelyMatches(r, upper(title.text)))
    /\ \A q \in 0..3 : q < r => ~PossiblyMatches(q, upper(title.text))

\* C23: the rank is 99 exactly for an empty or missing title and otherwise
\* the number of the first matching tier in the order 0 (C-level, or
\* Founder/Owner/President without "Vice"), 1 (SVP/VP), 2 (Director/Head
\* Of), 3 (Manager/Lead), 4 (default), so it is one of 0, 1, 2, 3, 4, 99;
\* a tier-1 title ranks below a tier-3 title, which ranks below a tier-4
\* title
C23_FirstMatchingTier ==
    RkAnswered =>
        /\ FirstTier(rk.a, rk.rank_a)
        /\ FirstTier(rk.b, rk.rank_b)
        /\ \A r \in 0..4 : OfTier(rk.a, r) => rk.rank_a = r
        /\ (OfTier(rk.a, 1) /\ OfTier(rk.b, 3) => rk.rank_a < rk.rank_b)
        /\ (OfTier(rk.a, 3) /\ OfTier(rk.b, 4) => rk.rank_a < rk.rank_b)

\* "Engineering Manager" (tier 3) has been ranked after "VP of Engineering"
\* (tier 1)
C23_Witness ==
    /\ RkAnswered
    /\ rk.a = Text(<<"V", "P", " ", "o", "f", " ", "E", "n", "g", "i", "n", "e", "e", "r", "i", "n", "g">>)
    /\ rk.b = Text(<<"E", "n", "g", "i", "n", "e", "e", "r", "i", "n", "g", " ", "M", "a", "n", "a", "g", "e", "r">>)
    /\ rk.rank_a = 1
    /\ rk.rank_b = 3

\* C24: keywords are matched on word boundaries: a title is put in a
\* keyword's tier only if one of the tier's keywords is a whole word of it
C24_WordBoundaryMatching ==
    RkAnswered /\ ~NoTitle(rk.a) /\ rk.rank_a < 4 =>
        WordMatch(rk.rank_a, upper(rk.a.text))

(***************************************************************************)
(* Properties of retry_request                                             *)
(***************************************************************************)
RtDone == rt.pc \in {"returned", "raised"}

\* the failures the documentation calls transient
Transient(o) ==
    \/ o.exc \in {"ConnectionError", "Timeout"}
    \/ o.exc = "" /\ (o.status = 429 \/ (500 <= o.status /\ o.status < 600))

\* attempt number i (from 1) was followed by another attempt, or will be
Retried(i) == i < Len(rt.outcomes) \/ ~RtDone

\* C25: while attempts remain, every attempt that ends in a connection
\* failure, a timeout, a 429 response or any 5xx response is retried
C25_TransientRetried ==
    \A i \in DOMAIN rt.outcomes :
        Transient(rt.outcomes[i]) /\ i <= rt.max_retries => Retried(i)

\* the failures after which the code sleeps
Retryable(o) == o.exc \in RETRYABLE_EXCEPTIONS \/ o.status \in RETRYABLE_STATUS_CODES

\* a 4xx response other than 429
Permanent(o) == o.exc = "" /\ 400 <= o.status /\ o.status < 500 /\ o.status # 429

\* C26: a response with a 4xx status other than 429 is never retried: the
\* attempt that got it is the last call, no delay is slept after it (the
\* only sleeps are those after the earlier attempts), and its error is
\* raised at once
C26_ClientErrorNotRetried ==
    \A i \in DOMAIN rt.outcomes :
        Permanent(rt.outcomes[i]) =>
            /\ i = Len(rt.outcomes)
            /\ rt.pc = "raised"
            /\ rt.error = HTTPError(rt.outcomes[i].status)
            /\ Len(rt.slept) = Cardinality({j \in 1..(i - 1) : Retryable(rt.outcomes[j])})

\* a 404 is the answer of the first attempt of a call that had retries left
C26_Witness ==
    /\ rt.pc = "raised"
    /\ rt.max_retries > 0
    /\ rt.outcomes = <<Response(404, None)>>
    /\ rt.slept = <<>>

Success(o) == o.exc = "" /\ o.status < 400

ErrorOf(o) == IF o.exc # "" THEN [type |-> o.exc, status |-> 0] ELSE HTTPError(o.status)

RtSafe ==
    /\ Len(rt.outcomes) <= rt.max_retries + 1
    /\ rt.pc = "returned" =>
          /\ rt.outcomes # <<>>
          /\ rt.result = rt.outcomes[Len(rt.outcomes)]
          /\ Success(rt.result)
          /\ \A i \in 1..(Len(rt.outcomes) - 1) : ~Success(rt.outcomes[i])
    /\ rt.pc = "raised" =>
          /\ rt.outcomes # <<>>
          /\ rt.error = ErrorOf(rt.outcomes[Len(rt.outcomes)])
          /\ (\A i \in DOMAIN rt.outcomes : Retryable(rt.outcomes[i]))
                => Len(rt.outcomes) = rt.max_retries + 1

\* C27: retry_request always terminates: it calls the operation at most
\* max_retries + 1 times, returns the first response with a status below
\* 400 without a further call, never returns without a response, and when
\* every attempt fails with a retryable failure it raises the error of the
\* final attempt
C27_Terminates == [](RtSafe) /\ <>RtDone

(***************************************************************************)
(* Properties of the contact loop                                          *)
(***************************************************************************)
\* C28: a failure of an external call for one contact, in any filter or in
\* the generation step, marks that contact as skipped or errored, and the
\* loop goes on to the next contact up to the final write and the complete
\* event
C28_FailureMarksContact ==
    /\ \A k \in DOMAIN lp.failed :
          lp.failed[k] # {} => lp.marks[k] \in {"skipped", "errored"}
    /\ lp.pc = "loop" => ENABLED NextLoop

\* C29: at completion stats.total is the sum of stats.prepped, the four skip
\* counters and stats.errors
C29_StatsReconcile ==
    lp.pc = "complete" =>
        lp.stats.total =
            lp.stats.prepped + lp.stats.skipped_subscriber + lp.stats.skipped_no_email
            + lp.stats.skipped_existing + lp.stats.skipped_cached + lp.stats.errors

(***************************************************************************)
(* Properties of the credential checks                                     *)
(***************************************************************************)
\* C30: a request to a handler while a credential it needs is missing is
\* rejected before any work starts: no external call is made and no session
\* is created, changed or deleted
C30_MissingCredentialRejected ==
    /\ cr.handler # ""
    /\ HANDLERS[cr.handler].used \ cr.configured # {}
    => /\ cr.pc = "rejected"
       /\ cr.external_calls = 0
       /\ cr.session_ops = 0

(***************************************************************************)
(* Properties of the thread pool                                           *)
(***************************************************************************)
\* a closed stream has no pending item, and nothing of it is in the session
ClosedClean ==
    \A s \in Streams :
        pl.streams[s].pc = "closed" =>
            /\ PendingOf(pl, s) = 0
            /\ ~pl.streams[s].written
            /\ pl.streams[s].cancelled + pl.streams[s].running + pl.streams[s].finished
               + pl.streams[s].yielded = pl.streams[s].n

\* the step that closes a stream cancels exactly its pending items; after
\* it none of its items is started, emitted or written
ClosedStep ==
    \A s \in Streams :
        /\ pl.streams[s].pc = "collecting" /\ pl'.streams[s].pc = "closed" =>
              /\ pl'.streams[s].cancelled = PendingOf(pl, s)
              /\ pl'.streams[s].running = pl.streams[s].running
        /\ pl.streams[s].pc = "closed" =>
              /\ pl'.streams[s].pc = "closed"
              /\ pl'.streams[s].cancelled = pl.streams[s].cancelled
              /\ pl'.streams[s].yielded = pl.streams[s].yielded
              /\ pl'.streams[s].running <= pl.streams[s].running
              /\ pl'.streams[s].running + pl'.streams[s].finished
                 = pl.streams[s].running + pl.streams[s].finished

\* C31: when the stream of a parallel stage is closed before all results
\* are consumed, every submitted item that has not started is cancelled and
\* never runs; an item in flight may finish, but its result is not emitted
\* and not written to the session
C31_CloseCancelsPending == [](ClosedClean) /\ [][ClosedStep]_vars

\* a stream was closed while one of its items was pending and another was
\* running; the pending one is cancelled, the running one has finished
C31_Witness ==
    \E s \in Streams :
        /\ pl.streams[s].pc = "closed"
        /\ pl.streams[s].cancelled > 0
        /\ pl.streams[s].finished > 1
        /\ pl.streams[s].running = 0

StreamBusy(s) == pl.streams[s].pc \in {"submitting", "collecting"}

StreamOver(s) == pl.streams[s].pc \in {"closed", "complete"}

\* at most max_workers items run; a complete stream has got one result for
\* each of its items
PoolSafe ==
    /\ RunningItems(pl) <= 8
    /\ \A s \in Streams :
          pl.streams[s].pc = "complete" =>
              /\ pl.streams[s].yielded = pl.streams[s].n
              /\ pl.streams[s].cancelled = 0
              /\ pl.streams[s].running = 0 /\ pl.streams[s].finished = 0
              /\ PendingOf(pl, s) = 0
              /\ pl.streams[s].written

C32_AtMostOncePerWindow ==
    \A i, j \in DOMAIN dd.upserts :
        (i < j /\ dd.upserts[i].key = dd.upserts[j].key) =>
            dd.upserts[j].at >= dd.upserts[i].at + DEFAULT_COOLDOWN_SECONDS

(***************************************************************************)
(* Properties of the retry delay                                           *)
(***************************************************************************)
\* the response that declares a wait in seconds
DeclaresDuration(o) ==
    /\ o.exc = "" /\ o.status = 429
    /\ o.retry_after # None
    /\ ParseFloat(o.retry_after.text).ok

\* C33: the delay before retry number attempt (counted from 0) is
\* min(base_delay * 2^attempt, max_delay), except that for a 429 response
\* declaring a Retry-After duration it is min(that duration, max_delay); in
\* every case the delay d satisfies 0 <= d <= max_delay
C33_DelayWithinBounds ==
    rt.pc = "sleep" =>
        LET o == rt.outcomes[Len(rt.outcomes)]
        IN  /\ rt.delay = IF DeclaresDuration(o)
                          THEN Min(ParseFloat(o.retry_after.text).value, max_delay)
                          ELSE Min(base_delay * Pow2(rt.attempt), max_delay)
            /\ 0 <= rt.delay /\ rt.delay <= max_delay

(***************************************************************************)
(* Properties of the checkpoints and the events of the contact loop        *)
(***************************************************************************)
\* a contact whose checkpoint failed is still in the list of the prepped
\* contacts and in the counter, and the loop has not stopped
UnsavedKept ==
    /\ \A cid \in lp.unsaved : \E k \in DOMAIN lp.prepped_contacts : lp.prepped_contacts[k] = cid
    /\ lp.stats.prepped = Len(lp.prepped_contacts)
    /\ lp.pc = "loop" => ENABLED NextLoop

\* a failed checkpoint leaves the run in the loop, at the next contact; a
\* session write that succeeds holds every contact prepped so far
WriteStep ==
    /\ (lp.pc = "loop" /\ lp'.unsaved # lp.unsaved) =>
          lp'.pc = "loop" /\ lp'.i = lp.i + 1 /\ lp'.written = lp.written
    /\ (lp.pc = "loop" /\ lp'.written # lp.written) =>
          /\ lp'.written.contacts = lp'.prepped_contacts
          /\ \A cid \in lp'.unsaved :
                \E k \in DOMAIN lp'.written.contacts : lp'.written.contacts[k] = cid

\* C34: a disk write failure during a per-contact checkpoint does not abort
\* the run: the contact stays counted as prepped, the following contacts are
\* processed, and the next successful checkpoint (or the final session
\* write) contains every artifact generated so far, including the one whose
\* checkpoint failed
C34_FailedCheckpointRecovered == [](UnsavedKept) /\ [][WriteStep]_vars

\* the checkpoint of the first contact failed and the checkpoint of the
\* second one holds both
C34_Witness ==
    /\ lp.pc = "loop"
    /\ lp.unsaved = {1}
    /\ lp.written # None
    /\ lp.written.generation_complete = FALSE
    /\ lp.written.contacts = <<1, 2>>

OutcomeTypes == {"done_contact", "skip", "error_contact"}

EventsOf(cid, types) ==
    {k \in DOMAIN lp.events : lp.events[k].contact = cid /\ lp.events[k].type \in types}

\* C35: in the sequential generation stream the events are emitted in
\* processing order: every event of contact i precedes every event of
\* contact i+1, each contact's progress event precedes its outcome, each
\* contact gets exactly one outcome event (done_contact, skip or
\* error_contact), and the single complete event comes after all of them
\* and after the final session write
C35_EventsInProcessingOrder ==
    /\ \A j, k \in DOMAIN lp.events :
          j < k =>
             /\ lp.events[j].type # "complete"
             /\ lp.events[k].type # "complete" => lp.events[j].contact <= lp.events[k].contact
    /\ \A n \in DOMAIN lp.contacts :
          LET cid == lp.contacts[n]
          IN  IF n < lp.i
              THEN /\ Cardinality(EventsOf(cid, OutcomeTypes)) = 1
                   /\ Cardinality(EventsOf(cid, {"progress"})) = 1
                   /\ \A j \in EventsOf(cid, {"progress"}), k \in EventsOf(cid, OutcomeTypes) : j < k
                   /\ \A j \in EventsOf(cid, {"generating"}), k \in EventsOf(cid, OutcomeTypes) : j < k
              ELSE EventsOf(cid, OutcomeTypes \cup {"progress", "generating"}) = {}
    /\ (\E k \in DOMAIN lp.events : lp.events[k].type = "complete") =>
          /\ lp.pc = "complete"
          /\ lp.i > Len(lp.contacts)
          /\ lp.written # None
          /\ lp.written.generation_complete
    /\ lp.pc = "complete" => lp.events[Len(lp.events)].type = "complete"

\* a run over two contacts has ended: the first contact was generated, the
\* second one failed in the generation
C35_Witness ==
    /\ lp.pc = "complete"
    /\ Len(lp.events) = 7
    /\ lp.events[3].type = "done_contact"
    /\ lp.events[5].type = "generating"
    /\ lp.events[6].type = "error_contact"

TzTotal(stats) == stats.tz_breakdown["ET"] + stats.tz_breakdown["UNKNOWN"]

CompleteOnDisk(d, s) == d[s] # NoFile /\ d[s].data.generation_complete

\* C36: once a session has been written with generation_complete = true, no
\* sequence of generate, resume, checkpoint or commit operations rewrites
\* that session identifier's file with generation_complete = false
C36_CompleteStaysComplete ==
    [][\A s \in SessionIds :
          (CompleteOnDisk(disk, s) /\ disk'[s] # NoFile) => CompleteOnDisk(disk', s)]_vars

(***************************************************************************)
(* Properties of set_session                                               *)
(***************************************************************************)
\* C37: the in-memory store changes only through set and delete: after
\* set(key, v), a later mutation of the object v by the caller, without
\* another set, does not change what get(key) returns
C37_SetStoresIndependentValue ==
    [][(st'.op = "mutate" /\ st' # st) =>
          \A key \in Keys : Stored(st', key) = Stored(st, key)]_vars

(***************************************************************************)
(* Properties of the blocks of the call sheet                              *)
(***************************************************************************)
\* C39: the scheduler's result always has exactly the 11 block indexes
\* 0..10, and because only the first mapping pair of a timezone is used,
\* the dead-zone block (index 5) and the secondary afternoon blocks
\* (indexes 6..10) are empty for every input
C39_AfternoonBlocksEmpty ==
    SheetBuilt =>
        /\ Cardinality(DOMAIN sheet.first.blocks) = 11
        /\ \A idx \in 0..10 : idx \in DOMAIN sheet.first.blocks
        /\ \A idx \in 5..10 : sheet.first.blocks[idx] = <<>>

\* an Eastern, a Central and a Pacific contact, whose mappings name the
\* afternoon blocks 6 to 10 too, are scheduled in the blocks 0, 1 and 3
C39_Witness ==
    /\ sheet.pc = "built" /\ Len(sheet.input) = 3
    /\ {sheet.input[k].tz : k \in DOMAIN sheet.input} = {US_Eastern, US_Central, US_Pacific}
    /\ Len(sheet.first.blocks[0]) = 1
    /\ Len(sheet.first.blocks[1]) = 1
    /\ Len(sheet.first.blocks[3]) = 1

====
